---- MODULE Spec2Model ----
(***************************************************************************)
(* UFO simulator (UfoSim), its autopilot (_Autopilot, HProfil,             *)
(* ProgressCheck) and the braking planner (GeometryUtil).                  *)
(*                                                                         *)
(* Numbers.  The program computes with Python floats; the model computes   *)
(* with fixed-point integers:                                              *)
(*   - lengths (x, y, z, dist, remainders, thresholds) in units of         *)
(*     1/PosScale metre: one tick at v km/h moves v/3.6 * 0.1 m, that is   *)
(*     v * TrigScale units;                                                *)
(*   - ftime in units of one STEP (0.1 s);                                 *)
(*   - sines and cosines of whole degrees scaled by TrigScale.             *)
(* math.cos(pi/2) is 6.1e-17 and not 0 in floating point, so a tick at     *)
(* inclination 0 from z = 0.0 leaves z a tiny positive number: the field   *)
(* zeps = 1 records "z is 0 plus a positive amount below the resolution".  *)
(***************************************************************************)
EXTENDS Integers, Sequences, FiniteSets, TLC

VARIABLES
    sim,      \* the UfoSim object: its private attributes
    ops,      \* engine specification: operations performed so far (model bound)
    race,     \* race specification: the two threads' positions and locals
    plan,     \* planner specification: inputs and result of _bremsberechnung
    prof,     \* profile specification: HProfil.schrittweise_bis against a probe
    ap,       \* flight specification: the autopilot thread
    last      \* tick specification: the engine before its last tick

vars == <<sim, ops, race, plan, prof, ap, last>>

----------------------------------------------------------------------------
(* Program constants of UfoSim.__init__ *)

VMAX == 15

ACCELERATION == 1

(* Fixed-point scales *)

TrigScale == 1000

PosScale == 36 * TrigScale

(* The crashed sentinel z = -1.0 *)
Crashed == -PosScale

----------------------------------------------------------------------------
(* Helpers *)

Max(a, b) == IF a >= b THEN a ELSE b

Min(a, b) == IF a <= b THEN a ELSE b

Abs(a) == IF a >= 0 THEN a ELSE -a

(* Division rounding toward zero *)
QuotT(a, b) == IF a >= 0 THEN a \div b ELSE -((-a) \div b)

(* round(1000 * math.sin(k degrees)) for k = 0..90 *)
SinTable ==
    <<    0,   17,   35,   52,   70,   87,  105,  122,  139,  156,  174,  191,  208,
        225,  242,  259,  276,  292,  309,  326,  342,  358,  375,  391,  407,  423,
        438,  454,  469,  485,  500,  515,  530,  545,  559,  574,  588,  602,  616,
        629,  643,  656,  669,  682,  695,  707,  719,  731,  743,  755,  766,  777,
        788,  799,  809,  819,  829,  839,  848,  857,  866,  875,  883,  891,  899,
        906,  914,  921,  927,  934,  940,  946,  951,  956,  961,  966,  970,  974,
        978,  982,  985,  988,  990,  993,  995,  996,  998,  999,  999, 1000, 1000 >>

(* math.sin of a whole number of degrees, scaled by TrigScale *)
SinDeg(deg) ==
    LET a == deg % 360
    IN  IF a <= 90 THEN SinTable[a + 1]
        ELSE IF a <= 180 THEN SinTable[180 - a + 1]
        ELSE IF a <= 270 THEN -SinTable[a - 180 + 1]
        ELSE -SinTable[360 - a + 1]

(* math.cos of a whole number of degrees, scaled by TrigScale *)
CosDeg(deg) == SinDeg(deg + 90)

----------------------------------------------------------------------------
(* UfoSim *)

(* The attributes reset() sets (xvect, yvect, zvect and vel are recomputed  *)
(* by every tick before they are read and are locals of UpdateSim here).    *)
(* A slip: heading and inclination zeroed with the rest *)
ResetState_AllZero ==
    [x |-> 0, y |-> 0, z |-> 0, zeps |-> 0, v |-> 0, d |-> 0, i |-> 0,
     dist |-> 0, ftime |-> 0, delta_v |-> 0, delta_d |-> 0, delta_i |-> 0]

ResetState ==
    [x |-> 0, y |-> 0, z |-> 0, zeps |-> 0, v |-> 0, d |-> 90, i |-> 90,
     dist |-> 0, ftime |-> 0, delta_v |-> 0, delta_d |-> 0, delta_i |-> 0]

(* A slip: the requested delta replaces the pending one *)
request_delta_v_Overwrites(s, delta) == [s EXCEPT !.delta_v = delta]

request_delta_v(s, delta) == [s EXCEPT !.delta_v = @ + delta]

request_delta_d(s, delta) == [s EXCEPT !.delta_d = @ + delta]

request_delta_i(s, delta) == [s EXCEPT !.delta_i = @ + delta]

(* A slip: an out-of-range heading is wrapped into 0..359 instead of ignored *)
set_d_Wraps(s, new_d) == [s EXCEPT !.d = new_d % 360]

set_d(s, new_d) == IF new_d >= 0 /\ new_d <= 359 THEN [s EXCEPT !.d = new_d] ELSE s

set_i(s, new_i) == IF new_i >= -90 /\ new_i <= 90 THEN [s EXCEPT !.i = new_i] ELSE s

(* self.__z > 0.0 and self.__z <= 0.0 on the fixed-point z with its zeps *)
ZPositive(s) == s.z > 0 \/ (s.z = 0 /\ s.zeps = 1)

(* A slip: at VMAX a positive pending delta is kept instead of drained *)
UpdateV_StallsAtVmax(v, dv) ==
    IF dv > 0 THEN
        IF v >= VMAX THEN << VMAX, dv >>
        ELSE IF dv - ACCELERATION > 0
        THEN << v + ACCELERATION, dv - ACCELERATION >>
        ELSE << (IF v + dv < VMAX THEN v + dv ELSE VMAX), 0 >>
    ELSE IF dv < 0 THEN
        IF dv + ACCELERATION < 0
        THEN << (IF v - ACCELERATION > 0 THEN v - ACCELERATION ELSE 0),
                dv + ACCELERATION >>
        ELSE << (IF v + dv > 0 THEN v + dv ELSE 0), 0 >>
    ELSE << v, dv >>

(* A slip: the last unit of a pending delta is dropped without changing v *)
UpdateV_LastUnitLost(v, dv) ==
    IF dv > 0 THEN
        IF dv - ACCELERATION > 0
        THEN << (IF v + ACCELERATION < VMAX THEN v + ACCELERATION ELSE VMAX),
                dv - ACCELERATION >>
        ELSE << v, 0 >>
    ELSE IF dv < 0 THEN
        IF dv + ACCELERATION < 0
        THEN << (IF v - ACCELERATION > 0 THEN v - ACCELERATION ELSE 0),
                dv + ACCELERATION >>
        ELSE << v, 0 >>
    ELSE << v, dv >>

(* "update v" of __update_sim: the new <<v, delta_v>> *)
UpdateV(v, dv) ==
    IF dv > 0 THEN
        IF dv - ACCELERATION > 0
        THEN << (IF v + ACCELERATION < VMAX THEN v + ACCELERATION ELSE VMAX),
                dv - ACCELERATION >>
        ELSE << (IF v + dv < VMAX THEN v + dv ELSE VMAX), 0 >>
    ELSE IF dv < 0 THEN
        IF dv + ACCELERATION < 0
        THEN << (IF v - ACCELERATION > 0 THEN v - ACCELERATION ELSE 0),
                dv + ACCELERATION >>
        ELSE << (IF v + dv > 0 THEN v + dv ELSE 0), 0 >>
    ELSE << v, dv >>

(* A slip: the heading stops at 359 and at 0 instead of wrapping *)
UpdateD_NoWrap(d, dd) ==
    IF dd > 0 /\ d = 359 THEN << 359, dd - 1 >>
    ELSE IF dd > 0 /\ d < 359 THEN << d + 1, dd - 1 >>
    ELSE IF dd < 0 /\ d = 0 THEN << 0, dd + 1 >>
    ELSE IF dd < 0 /\ d > 0 THEN << d - 1, dd + 1 >>
    ELSE << d, 0 >>

(* "update d" of __update_sim: the new <<d, delta_d>> *)
UpdateD(d, dd) ==
    IF dd > 0 /\ d = 359 THEN << 0, dd - 1 >>
    ELSE IF dd > 0 /\ d < 359 THEN << d + 1, dd - 1 >>
    ELSE IF dd < 0 /\ d = 0 THEN << 359, dd + 1 >>
    ELSE IF dd < 0 /\ d > 0 THEN << d - 1, dd + 1 >>
    ELSE << d, 0 >>

(* A slip: at the inclination stop the pending delta is kept *)
UpdateI_KeepsAtStop(i, di) ==
    IF di > 0 /\ i < 90 THEN << i + 1, di - 1 >>
    ELSE IF di < 0 /\ i > -90 THEN << i - 1, di + 1 >>
    ELSE << i, di >>

(* "update i" of __update_sim: the new <<i, delta_i>> *)
UpdateI(i, di) ==
    IF di > 0 /\ i < 90 THEN << i + 1, di - 1 >>
    ELSE IF di < 0 /\ i > -90 THEN << i - 1, di + 1 >>
    ELSE << i, 0 >>

(* A slip: sine and cosine of the heading exchanged *)
Integrate_HeadingSwapped(s) ==
    LET xvect == QuotT(SinDeg(90 - s.i) * SinDeg(s.d), TrigScale)
        yvect == QuotT(SinDeg(90 - s.i) * CosDeg(s.d), TrigScale)
        zvect == CosDeg(90 - s.i)
        nz    == s.z + s.v * zvect
    IN  [s EXCEPT !.dist = @ + s.v * TrigScale,
                  !.x = @ + s.v * xvect,
                  !.y = @ + s.v * yvect,
                  !.z = nz,
                  !.zeps = IF nz # 0 THEN 0
                           ELSE IF s.i = 0 /\ s.v > 0 THEN 1 ELSE @]

(* Lines 171-185: distance, flight vector and position from the updated     *)
(* v, d, i.  vel * STEP is v * TrigScale units.                             *)
Integrate(s) ==
    LET xvect == QuotT(SinDeg(90 - s.i) * CosDeg(s.d), TrigScale)
        yvect == QuotT(SinDeg(90 - s.i) * SinDeg(s.d), TrigScale)
        zvect == CosDeg(90 - s.i)
        nz    == s.z + s.v * zvect
    IN  [s EXCEPT !.dist = @ + s.v * TrigScale,
                  !.x = @ + s.v * xvect,
                  !.y = @ + s.v * yvect,
                  !.z = nz,
                  !.zeps = IF nz # 0 THEN 0
                           ELSE IF s.i = 0 /\ s.v > 0 THEN 1 ELSE @]

(* A plausible slip in the landed branch: v is stopped, z is not clamped *)
Terminal_LandedNoClamp(s) ==
    IF ~ZPositive(s) THEN
        IF s.v = 1 THEN [s EXCEPT !.v = 0]
        ELSE IF s.v > 1 THEN [s EXCEPT !.z = Crashed, !.zeps = 0, !.v = 0]
        ELSE s
    ELSE s

(* A slip: every touchdown with v >= 1 counts as landed *)
Terminal_NeverCrashes(s) ==
    IF ~ZPositive(s) THEN
        IF s.v >= 1 THEN [s EXCEPT !.z = 0, !.zeps = 0, !.v = 0]
        ELSE s
    ELSE s

(* Lines 187-194: stop if landed or crashed *)
Terminal(s) ==
    IF ~ZPositive(s) THEN
        IF s.v = 1 THEN [s EXCEPT !.z = 0, !.zeps = 0, !.v = 0]
        ELSE IF s.v > 1 THEN [s EXCEPT !.z = Crashed, !.zeps = 0, !.v = 0]
        ELSE s
    ELSE s

(* The deltas applied in the order v, d, i *)
ApplyDeltas(s) ==
    LET nv == UpdateV(s.v, s.delta_v)
        nd == UpdateD(s.d, s.delta_d)
        ni == UpdateI(s.i, s.delta_i)
    IN  [s EXCEPT !.v = nv[1], !.delta_v = nv[2],
                  !.d = nd[1], !.delta_d = nd[2],
                  !.i = ni[1], !.delta_i = ni[2]]

(* A slip: the "if not crashed" guard of line 116 left out *)
UpToIntegration_NoCrashGuard(s) ==
    LET s1 == IF ZPositive(s) THEN [s EXCEPT !.ftime = @ + 1] ELSE s
    IN  Integrate(ApplyDeltas(s1))

(* A slip: the flight time advanced on the ground as well (z >= 0) *)
UpToIntegration_TimeOnGround(s) ==
    LET s1 == IF s.z >= 0 THEN [s EXCEPT !.ftime = @ + 1] ELSE s
    IN  IF s1.z >= 0 THEN Integrate(ApplyDeltas(s1)) ELSE s1

(* A slip: a crashed engine still drains its pending deltas *)
UpToIntegration_DrainsWhenCrashed(s) ==
    LET s1 == IF ZPositive(s) THEN [s EXCEPT !.ftime = @ + 1] ELSE s
    IN  IF s1.z >= 0 THEN Integrate(ApplyDeltas(s1)) ELSE ApplyDeltas(s1)

(* Lines 112-185 of __update_sim: flight time, deltas and integration *)
UpToIntegration(s) ==
    LET s1 == IF ZPositive(s) THEN [s EXCEPT !.ftime = @ + 1] ELSE s
    IN  IF s1.z >= 0 THEN Integrate(ApplyDeltas(s1)) ELSE s1

(* One call of __update_sim *)
UpdateSim(s) == Terminal(UpToIntegration(s))

----------------------------------------------------------------------------
(* Idle values of the parts a specification does not use *)

NoRace == [pc |-> "off"]

NoPlan == [pc |-> "off"]

NoProf == [pc |-> "off"]

NoAp == [pc |-> "off"]

NoLast == [pc |-> "off"]

----------------------------------------------------------------------------
(* Specification Spec: the engine under any sequence of its operations,     *)
(* each taken as a whole.                                                   *)

MaxOps == 7

MaxPending == 3

DeltaInputs == {-3, -1, 1, 2}

SetDInputs == {-1, 0, 359, 360}

SetIInputs == {-91, -90, 0, 90, 91}

(* s after n ticks *)
RECURSIVE IterTick(_, _)
IterTick(s, n) == IF n = 0 THEN s ELSE IterTick(UpdateSim(s), n - 1)

(* The engine after reset(), request_delta_v(14) and 14 ticks: climbing at  *)
(* 14 km/h, one step below VMAX.                                            *)
FastClimb == IterTick(request_delta_v(ResetState, VMAX - 1), VMAX - 1)

EngineInit ==
    /\ sim \in {ResetState, FastClimb}
    /\ ops = 0
    /\ last = NoLast
    /\ race = NoRace
    /\ plan = NoPlan
    /\ prof = NoProf
    /\ ap = NoAp

EngineStep(s) ==
    /\ ops < MaxOps
    /\ sim' = s
    /\ ops' = ops + 1
    /\ UNCHANGED <<race, plan, prof, ap, last>>

Reset == EngineStep(ResetState)

RequestDeltaV == \E delta \in DeltaInputs :
    /\ Abs(sim.delta_v + delta) <= MaxPending
    /\ EngineStep(request_delta_v(sim, delta))

RequestDeltaD == \E delta \in DeltaInputs :
    /\ Abs(sim.delta_d + delta) <= MaxPending
    /\ EngineStep(request_delta_d(sim, delta))

RequestDeltaI == \E delta \in DeltaInputs :
    /\ Abs(sim.delta_i + delta) <= MaxPending
    /\ EngineStep(request_delta_i(sim, delta))

SetD == \E n \in SetDInputs : EngineStep(set_d(sim, n))

SetI == \E n \in SetIInputs : EngineStep(set_i(sim, n))

Tick == EngineStep(UpdateSim(sim))

EngineNext ==
    \/ Reset
    \/ RequestDeltaV
    \/ RequestDeltaD
    \/ RequestDeltaI
    \/ SetD
    \/ SetI
    \/ Tick

Spec == EngineInit /\ [][EngineNext]_vars

----------------------------------------------------------------------------
(* C1: after any sequence of reset, request_delta_v/d/i, set_d, set_i and   *)
(* ticks, 0 <= v <= VMAX, -90 <= i <= 90, 0 <= d <= 359 and z >= -1; and z  *)
(* is either the crashed sentinel -1 or >= 0 (so also after every tick).    *)
C1_EngineRanges ==
    /\ 0 <= sim.v /\ sim.v <= VMAX
    /\ -90 <= sim.i /\ sim.i <= 90
    /\ 0 <= sim.d /\ sim.d <= 359
    /\ sim.z >= Crashed
    /\ (sim.z = Crashed \/ sim.z >= 0)

(* A tick has crashed the engine *)
C1_Witness == sim.z = Crashed /\ sim.v = 0 /\ sim.i < 0 /\ ops > 0

----------------------------------------------------------------------------
(* Specification SpecRace: one request_delta_v(delta) of the autopilot      *)
(* thread against one concurrently running tick, at the granularity of the  *)
(* single reads and writes of the attribute delta_v.  Nothing in UfoSim     *)
(* locks the attribute; v, d, i and the position are written by the tick    *)
(* thread alone, so the tick's other statements are taken with the read or  *)
(* write of delta_v that precedes them.                                     *)

RaceMaxPending == 3

RaceDeltas == {-9, -1, 1, 10}

(* Engine states with a pending delta_v: n requested, k ticks later *)
RaceSeedsUp ==
    { IterTick(request_delta_v(ResetState, n), k) :
        n \in 1..RaceMaxPending, k \in 0..(RaceMaxPending - 1) }

(* ... and climbing at RaceMaxPending km/h with a negative delta requested *)
RaceSeedsDown ==
    { request_delta_v(IterTick(request_delta_v(ResetState, RaceMaxPending),
                               RaceMaxPending), -n) : n \in 1..RaceMaxPending }

(* ... and crashed: request_delta_v(2), tick, set_i(-90), tick, then a       *)
(* request that stays pending                                               *)
RaceSeedCrashed ==
    request_delta_v(
        UpdateSim(set_i(UpdateSim(request_delta_v(ResetState, 2)), -90)), 1)

RaceInit ==
    /\ sim \in RaceSeedsUp \cup RaceSeedsDown \cup {RaceSeedCrashed}
    /\ \E delta \in RaceDeltas :
          race = [pc |-> "on", tick |-> "t_start", req |-> "r_read",
                  delta |-> delta, r_tmp |-> 0, t_tmp |-> 0, start |-> sim]
    /\ ops = 0
    /\ last = NoLast
    /\ plan = NoPlan
    /\ prof = NoProf
    /\ ap = NoAp

RaceFrame == UNCHANGED <<ops, plan, prof, ap, last>>

TickAt(pc) == race.pc = "on" /\ race.tick = pc

TickTo(pc) == race' = [race EXCEPT !.tick = pc]

(* request_delta_v, line 97: the read of self.__delta_v *)
ReqRead ==
    /\ race.pc = "on" /\ race.req = "r_read"
    /\ race' = [race EXCEPT !.req = "r_write", !.r_tmp = sim.delta_v]
    /\ UNCHANGED sim
    /\ RaceFrame

(* request_delta_v, line 97: the write of self.__delta_v *)
ReqWrite ==
    /\ race.pc = "on" /\ race.req = "r_write"
    /\ sim' = [sim EXCEPT !.delta_v = race.r_tmp + race.delta]
    /\ race' = [race EXCEPT !.req = "r_done"]
    /\ RaceFrame

(* lines 112-116: flight time, then the test "not crashed" *)
TickStart ==
    /\ TickAt("t_start")
    /\ sim' = IF ZPositive(sim) THEN [sim EXCEPT !.ftime = @ + 1] ELSE sim
    /\ TickTo(IF sim.z >= 0 THEN "t_if_pos" ELSE "t_term")
    /\ RaceFrame

(* line 118: if delta_v > 0 *)
TickIfPos ==
    /\ TickAt("t_if_pos")
    /\ TickTo(IF sim.delta_v > 0 THEN "t_pos_cmp" ELSE "t_if_neg")
    /\ UNCHANGED sim
    /\ RaceFrame

(* line 131: elif delta_v < 0 *)
TickIfNeg ==
    /\ TickAt("t_if_neg")
    /\ TickTo(IF sim.delta_v < 0 THEN "t_neg_cmp" ELSE "t_rest")
    /\ UNCHANGED sim
    /\ RaceFrame

(* lines 119-123: if delta_v - ACCELERATION > 0, and the update of v *)
TickPosCmp ==
    /\ TickAt("t_pos_cmp")
    /\ IF sim.delta_v - ACCELERATION > 0
       THEN /\ sim' = [sim EXCEPT !.v = IF @ + ACCELERATION < VMAX
                                        THEN @ + ACCELERATION ELSE VMAX]
            /\ TickTo("t_big_read")
       ELSE /\ UNCHANGED sim
            /\ TickTo("t_pos_small")
    /\ RaceFrame

(* lines 132-136: if delta_v + ACCELERATION < 0, and the update of v *)
TickNegCmp ==
    /\ TickAt("t_neg_cmp")
    /\ IF sim.delta_v + ACCELERATION < 0
       THEN /\ sim' = [sim EXCEPT !.v = IF @ - ACCELERATION > 0
                                        THEN @ - ACCELERATION ELSE 0]
            /\ TickTo("t_big_read_neg")
       ELSE /\ UNCHANGED sim
            /\ TickTo("t_neg_small")
    /\ RaceFrame

(* line 124: the read of delta_v in delta_v = delta_v - ACCELERATION *)
TickBigRead ==
    /\ TickAt("t_big_read")
    /\ race' = [race EXCEPT !.tick = "t_big_write",
                            !.t_tmp = sim.delta_v - ACCELERATION]
    /\ UNCHANGED sim
    /\ RaceFrame

(* line 137: the read of delta_v in delta_v = delta_v + ACCELERATION *)
TickBigReadNeg ==
    /\ TickAt("t_big_read_neg")
    /\ race' = [race EXCEPT !.tick = "t_big_write",
                            !.t_tmp = sim.delta_v + ACCELERATION]
    /\ UNCHANGED sim
    /\ RaceFrame

(* lines 124 and 137: the write of delta_v *)
TickBigWrite ==
    /\ TickAt("t_big_write")
    /\ sim' = [sim EXCEPT !.delta_v = race.t_tmp]
    /\ TickTo("t_rest")
    /\ RaceFrame

(* lines 126 and 129: if v + delta_v < VMAX ... else v = VMAX *)
TickPosSmall ==
    /\ TickAt("t_pos_small")
    /\ IF sim.v + sim.delta_v < VMAX
       THEN /\ UNCHANGED sim
            /\ TickTo("t_small_add")
       ELSE /\ sim' = [sim EXCEPT !.v = VMAX]
            /\ TickTo("t_zero")
    /\ RaceFrame

(* lines 139 and 142: if v + delta_v > 0 ... else v = 0 *)
TickNegSmall ==
    /\ TickAt("t_neg_small")
    /\ IF sim.v + sim.delta_v > 0
       THEN /\ UNCHANGED sim
            /\ TickTo("t_small_add")
       ELSE /\ sim' = [sim EXCEPT !.v = 0]
            /\ TickTo("t_zero")
    /\ RaceFrame

(* lines 127 and 140: v = v + delta_v, with its own read of delta_v *)
TickSmallAdd ==
    /\ TickAt("t_small_add")
    /\ sim' = [sim EXCEPT !.v = @ + sim.delta_v]
    /\ TickTo("t_zero")
    /\ RaceFrame

(* lines 130 and 143: delta_v = 0 *)
TickZero ==
    /\ TickAt("t_zero")
    /\ sim' = [sim EXCEPT !.delta_v = 0]
    /\ TickTo("t_rest")
    /\ RaceFrame

(* lines 145-194: d, i, distance, position, landed or crashed *)
TickRest ==
    /\ TickAt("t_rest")
    /\ LET nd == UpdateD(sim.d, sim.delta_d)
           ni == UpdateI(sim.i, sim.delta_i)
       IN  sim' = Terminal(Integrate([sim EXCEPT !.d = nd[1], !.delta_d = nd[2],
                                                 !.i = ni[1], !.delta_i = ni[2]]))
    /\ TickTo("t_done")
    /\ RaceFrame

(* lines 187-194 of a tick that found the engine crashed *)
TickTerm ==
    /\ TickAt("t_term")
    /\ sim' = Terminal(sim)
    /\ TickTo("t_done")
    /\ RaceFrame

RaceNext ==
    \/ ReqRead
    \/ ReqWrite
    \/ TickStart
    \/ TickIfPos
    \/ TickIfNeg
    \/ TickPosCmp
    \/ TickNegCmp
    \/ TickBigRead
    \/ TickBigReadNeg
    \/ TickBigWrite
    \/ TickPosSmall
    \/ TickNegSmall
    \/ TickSmallAdd
    \/ TickZero
    \/ TickRest
    \/ TickTerm

SpecRace == RaceInit /\ [][RaceNext]_vars

RaceDone == race.pc = "on" /\ race.tick = "t_done" /\ race.req = "r_done"

(* The two serial orders of the request and the tick *)
SerialOutcomes ==
    { UpdateSim(request_delta_v(race.start, race.delta)),
      request_delta_v(UpdateSim(race.start), race.delta) }

(* C2: no pending-delta update is lost: whatever the interleaving of the    *)
(* reads and writes of a request_delta_v call and a tick, the engine ends   *)
(* in the state of one of the two serial orders.                            *)
C2_NoLostUpdate == RaceDone => sim \in SerialOutcomes

----------------------------------------------------------------------------
(* AutopilotCfg, GeometryUtil and _Autopilot._bremsberechnung               *)
(*                                                                          *)
(* Lengths of the configuration are in units of 1/PosScale metre, the       *)
(* deceleration a_slow_mps2 in units of 1/AccScale m/s^2, speeds in km/h.   *)

AccScale == 100

(* GeometryUtil.KMH2MPS = 1000/3600 = 5/18: speeds in m/s are kept in units *)
(* of 1/VelScale m/s                                                        *)
VelScale == 18

(* DEFAULT_CFG = AutopilotCfg() *)
DEFAULT_CFG ==
    [neigung_steigen_deg |-> 90, neigung_sinken_deg |-> -90,
     neigung_neutral_deg |-> 0,
     slow_h |-> 4 * PosScale,
     stop_h |-> PosScale \div 20,
     slow_z_fallback |-> 2 * PosScale,
     stop_z |-> PosScale \div 20,
     landing_slow_z |-> 3 * PosScale,
     v_up |-> 10, v_up_to_slow |-> -9,
     v_cruise |-> 15, v_cruise_to_slow |-> -14, v_stop |-> -1,
     v_cruise_kmh |-> 15, v_slow_kmh |-> 1, a_slow_mps2 |-> -AccScale]

(* Whether GeometryUtil._to_mps raises ValueError for the unit *)
ToMpsRaises(v_unit) == v_unit \notin {"mps", "kmh", "km/h"}

(* GeometryUtil._to_mps for a unit it knows: the speed in 1/VelScale m/s *)
ToMps(v, v_unit) == IF v_unit = "mps" THEN VelScale * v ELSE 5 * v

(* max(0.0, (v0_mps^2 - v1_mps^2) / (2 * abs(a))) in length units, for      *)
(* speeds in 1/VelScale m/s and a # 0: the quotient                         *)
(*   (v0^2 - v1^2) * PosScale * AccScale / (2 * VelScale^2 * |a|)           *)
(* with numerator and denominator divided by 4 * VelScale, which keeps the  *)
(* products within 32 bits                                                  *)
DecelLength(v0_mps, v1_mps, a) ==
    Max(0, ((v0_mps * v0_mps - v1_mps * v1_mps)
              * (PosScale \div (4 * VelScale)) * AccScale)
           \div ((VelScale \div 2) * Abs(a)))

(* GeometryUtil.bremsbeginn as _bremsberechnung calls it: v0, v1 and a      *)
(* given, rel and fallback left None.  The result is                        *)
(* [raised |-> whether ValueError was raised, value |-> the start of the    *)
(* slow phase].                                                             *)
bremsbeginn(s_total_in, stop_window_in, v0, v1, a, v_unit) ==
    LET s_total == Max(0, s_total_in)
        stop_window == Max(0, stop_window_in)
    IN  IF s_total <= stop_window
        THEN [raised |-> FALSE, value |-> stop_window]
        ELSE IF a # 0 /\ ToMpsRaises(v_unit)
        THEN [raised |-> TRUE, value |-> 0]
        ELSE LET candidates ==
                     IF a # 0
                     THEN { s_total - DecelLength(ToMps(v0, v_unit),
                                                  ToMps(v1, v_unit), a) }
                     ELSE {}
                 start == IF candidates # {}
                          THEN CHOOSE c \in candidates :
                                   \A o \in candidates : c >= o
                          ELSE stop_window
             IN  [raised |-> FALSE,
                  value |-> Min(s_total, Max(stop_window, start))]

(* GeometryUtil.stoppen_vertikal *)
stoppen_vertikal(stop_window) == Max(0, stop_window)

(* A slip: the slow threshold not capped by the rest *)
Fallback_NoRestCap(conf, rest) ==
    LET slow == Max(conf.stop_z,
                    Max((4 * rest) \div 5, rest - conf.slow_z_fallback))
    IN  << slow, Max(0, conf.stop_z) >>

(* _fallback of _bremsberechnung: 0.8 * rest is (4 * rest) / 5 *)
Fallback(conf, rest) ==
    LET slow == Max(conf.stop_z,
                    Max((4 * rest) \div 5, rest - conf.slow_z_fallback))
    IN  << Min(rest, slow), Max(0, conf.stop_z) >>

(* _Autopilot._bremsberechnung: <<slow_at, stop_at>>.  The flag named       *)
(* use_heuristic selects the kinematic path.                                *)
Bremsberechnung(conf, rest, use_heuristic) ==
    LET slow_at == bremsbeginn(rest, conf.stop_z, conf.v_cruise_kmh,
                               conf.v_slow_kmh, conf.a_slow_mps2, "kmh")
    IN  IF use_heuristic /\ ~slow_at.raised
        THEN << slow_at.value, stoppen_vertikal(conf.stop_z) >>
        ELSE Fallback(conf, rest)

----------------------------------------------------------------------------
(* Specification SpecPlan: _bremsberechnung on bounded inputs               *)

PlanRests ==
    { 0, PosScale \div 100, PosScale \div 20, PosScale \div 2, PosScale,
      3 * PosScale, 10 * PosScale, 20 * PosScale }

PlanStopZ == { -(PosScale \div 20), 0, PosScale \div 20, PosScale }

PlanSlowZFallback == { 0, 2 * PosScale }

PlanDecelerations == { -AccScale, 0, AccScale \div 2 }

PlanSpeeds == { <<15, 1>>, <<5, 5>>, <<1, 15>> }

PlanInit ==
    /\ \E rest \in PlanRests, stop_z \in PlanStopZ,
          slow_z_fallback \in PlanSlowZFallback, a \in PlanDecelerations,
          vv \in PlanSpeeds, use_heuristic \in BOOLEAN :
          plan = [pc |-> "call",
                  conf |-> [DEFAULT_CFG EXCEPT !.stop_z = stop_z,
                                               !.slow_z_fallback = slow_z_fallback,
                                               !.a_slow_mps2 = a,
                                               !.v_cruise_kmh = vv[1],
                                               !.v_slow_kmh = vv[2]],
                  rest |-> rest, use_heuristic |-> use_heuristic,
                  slow_at |-> 0, stop_at |-> 0]
    /\ sim = ResetState
    /\ ops = 0
    /\ last = NoLast
    /\ race = NoRace
    /\ prof = NoProf
    /\ ap = NoAp

CallBremsberechnung ==
    /\ plan.pc = "call"
    /\ LET r == Bremsberechnung(plan.conf, plan.rest, plan.use_heuristic)
       IN  plan' = [plan EXCEPT !.pc = "returned",
                                !.slow_at = r[1], !.stop_at = r[2]]
    /\ UNCHANGED <<sim, ops, race, prof, ap, last>>

PlanNext == CallBremsberechnung

SpecPlan == PlanInit /\ [][PlanNext]_vars

(* C9: for non-negative stop_z, slow_z_fallback and rest, _bremsberechnung  *)
(* returns 0 <= stop_at <= slow_at <= rest on both paths.                   *)
C9_PlanOrdered ==
    (plan.pc = "returned" /\ plan.conf.stop_z >= 0
       /\ plan.conf.slow_z_fallback >= 0 /\ plan.rest >= 0)
    => (0 <= plan.stop_at /\ plan.stop_at <= plan.slow_at
          /\ plan.slow_at <= plan.rest)

(* C10: with the kinematic path selected and a_slow_mps2 = 0 the returned   *)
(* plan is the heuristic fallback plan for that rest: slow_at derived from  *)
(* max(0.8 * rest, rest - slow_z_fallback), stop_at the stop window.        *)
C10_ZeroDecelerationFallsBack ==
    (plan.pc = "returned" /\ plan.use_heuristic /\ plan.conf.a_slow_mps2 = 0)
    => /\ plan.slow_at =
             Min(plan.rest,
                 Max(plan.conf.stop_z,
                     Max((8 * plan.rest) \div 10,
                         plan.rest - plan.conf.slow_z_fallback)))
       /\ plan.stop_at = plan.conf.stop_z

(* The call took the heuristic fallback path *)
OnFallbackPath == plan.pc = "returned" /\ ~plan.use_heuristic /\ plan.rest >= 0

UncappedSlow ==
    Max(plan.conf.stop_z,
        Max((8 * plan.rest) \div 10, plan.rest - plan.conf.slow_z_fallback))

(* C30: on the heuristic fallback path _bremsberechnung returns             *)
(* slow_at = max(stop_z, max(0.8 * rest, rest - slow_z_fallback)) and       *)
(* stop_at = stop_z, for every rest >= 0 and every configuration.           *)
C30_FallbackFormula ==
    OnFallbackPath =>
        /\ plan.slow_at = UncappedSlow
        /\ plan.stop_at = plan.conf.stop_z

(* C30 as amended: on the heuristic fallback path _bremsberechnung returns  *)
(* slow_at = min(rest, max(stop_z, max(0.8 * rest, rest - slow_z_fallback)))*)
(* and stop_at = max(0, stop_z), for every rest >= 0 and every              *)
(* configuration.                                                           *)
C30_FallbackFormulaCapped ==
    OnFallbackPath =>
        /\ plan.slow_at = (IF UncappedSlow <= plan.rest THEN UncappedSlow ELSE plan.rest)
        /\ plan.stop_at = (IF plan.conf.stop_z > 0 THEN plan.conf.stop_z ELSE 0)

(* The fallback has capped the slow threshold by a rest below the stop      *)
(* window                                                                   *)
C30_Witness ==
    /\ OnFallbackPath
    /\ 0 < plan.rest /\ plan.rest < plan.conf.stop_z
    /\ plan.slow_at = plan.rest
    /\ plan.stop_at = plan.conf.stop_z

----------------------------------------------------------------------------
(* ProgressCheck and HProfil                                                *)

(* eps_abs = eps_rel = 1e-3 = 1/EpsDen *)
EpsDen == 1000

(* EpsDen * max(eps_abs, eps_rel * max(rest_alt, 1.0)), in length units *)
MinFortschritt(rest_alt) ==
    Max(PosScale, Max(rest_alt, PosScale))

(* A slip: progress equal to the minimum no longer counts as stagnation *)
Stagniert_Strict(rest_alt, rest_neu) ==
    (rest_alt - rest_neu) * EpsDen < MinFortschritt(rest_alt)

(* stagniert = (rest_alt - rest_neu) <= min_fortschritt *)
Stagniert(rest_alt, rest_neu) ==
    (rest_alt - rest_neu) * EpsDen <= MinFortschritt(rest_alt)

(* A slip: the comparison value starts one metre above the first measurement *)
ProgressCheckNew_StartsAbove(rest_value, ziel) ==
    [ziel |-> ziel, rest_alt |-> rest_value + PosScale]

(* ProgressCheck(rest=..., ziel=...): __post_init__ reads the remainder *)
ProgressCheckNew(rest_value, ziel) ==
    [ziel |-> ziel, rest_alt |-> rest_value]

(* ProgressCheck.__call__ with rest() = rest_neu: the result and the object *)
(* A slip: the remembered remainder is not replaced *)
ProgressCheckCall_KeepsRestAlt(chk, rest_neu) ==
    [result |-> (rest_neu <= chk.ziel) \/ Stagniert(chk.rest_alt, rest_neu),
     chk |-> chk]

ProgressCheckCall(chk, rest_neu) ==
    [result |-> (rest_neu <= chk.ziel) \/ Stagniert(chk.rest_alt, rest_neu),
     chk |-> [chk EXCEPT !.rest_alt = rest_neu]]

(* The frame of a running HProfil.schrittweise_bis call *)
ProfilCall(schwelle_langsam, schwelle_stop, dv_beschleunigen, dv_abbremsen, konfig) ==
    [pc |-> "p1_init",
     schwelle_langsam |-> schwelle_langsam, schwelle_stop |-> schwelle_stop,
     dv_beschleunigen |-> dv_beschleunigen, dv_abbremsen |-> dv_abbremsen,
     v_stop |-> konfig.v_stop,
     chk |-> ProgressCheckNew(0, 0)]

(* A slip: phase 2 requests its delta and does not wait *)
ProfilStep_NoWait2(p, rest_value, s) ==
    LET keep == [p |-> p, sim |-> s, calls |-> << >>]
    IN  CASE p.pc = "p1_init" ->
                 [keep EXCEPT !.p = [p EXCEPT !.pc = "p1_request",
                     !.chk = ProgressCheckNew(rest_value, p.schwelle_langsam)]]
          [] p.pc = "p1_request" ->
                 [p |-> [p EXCEPT !.pc = "p1_wait"],
                  sim |-> request_delta_v(s, p.dv_beschleunigen),
                  calls |-> << p.dv_beschleunigen >>]
          [] p.pc = "p1_wait" ->
                 LET c == ProgressCheckCall(p.chk, rest_value)
                 IN  [keep EXCEPT !.p = [p EXCEPT !.chk = c.chk,
                         !.pc = IF c.result THEN "p2_init" ELSE "p1_wait"]]
          [] p.pc = "p2_init" ->
                 [keep EXCEPT !.p = [p EXCEPT !.pc = "p2_request",
                     !.chk = ProgressCheckNew(rest_value, p.schwelle_stop)]]
          [] p.pc = "p2_request" ->
                 [p |-> [p EXCEPT !.pc = "stop"],
                  sim |-> request_delta_v(s, p.dv_abbremsen),
                  calls |-> << p.dv_abbremsen >>]
          [] p.pc = "p2_wait" ->
                 [keep EXCEPT !.p = [p EXCEPT !.pc = "stop"]]
          [] p.pc = "stop" ->
                 [p |-> [p EXCEPT !.pc = "returned"],
                  sim |-> request_delta_v(s, p.v_stop),
                  calls |-> << p.v_stop >>]
          [] OTHER -> keep

(* One step of HProfil.schrittweise_bis (with _profil_schritt_bis and       *)
(* warte_bis inlined) when the probe rest() returns rest_value: the new     *)
(* frame, the simulator and the request_delta_v calls made.                 *)
(*   p1_init:    ProgressCheck(rest, schwelle_langsam)     (line 74)        *)
(*   p1_request: sim.request_delta_v(dv_beschleunigen)     (line 76)        *)
(*   p1_wait:    one evaluation of warte_bis' condition    (lines 45-46)    *)
(*   p2_init, p2_request, p2_wait: the same with schwelle_stop, dv_abbremsen*)
(*   stop:       sim.request_delta_v(konfig.v_stop)        (line 104)       *)
ProfilStep(p, rest_value, s) ==
    LET keep == [p |-> p, sim |-> s, calls |-> << >>]
    IN  CASE p.pc = "p1_init" ->
                 [keep EXCEPT !.p = [p EXCEPT !.pc = "p1_request",
                     !.chk = ProgressCheckNew(rest_value, p.schwelle_langsam)]]
          [] p.pc = "p1_request" ->
                 [p |-> [p EXCEPT !.pc = "p1_wait"],
                  sim |-> request_delta_v(s, p.dv_beschleunigen),
                  calls |-> << p.dv_beschleunigen >>]
          [] p.pc = "p1_wait" ->
                 LET c == ProgressCheckCall(p.chk, rest_value)
                 IN  [keep EXCEPT !.p = [p EXCEPT !.chk = c.chk,
                         !.pc = IF c.result THEN "p2_init" ELSE "p1_wait"]]
          [] p.pc = "p2_init" ->
                 [keep EXCEPT !.p = [p EXCEPT !.pc = "p2_request",
                     !.chk = ProgressCheckNew(rest_value, p.schwelle_stop)]]
          [] p.pc = "p2_request" ->
                 [p |-> [p EXCEPT !.pc = "p2_wait"],
                  sim |-> request_delta_v(s, p.dv_abbremsen),
                  calls |-> << p.dv_abbremsen >>]
          [] p.pc = "p2_wait" ->
                 LET c == ProgressCheckCall(p.chk, rest_value)
                 IN  [keep EXCEPT !.p = [p EXCEPT !.chk = c.chk,
                         !.pc = IF c.result THEN "stop" ELSE "p2_wait"]]
          [] p.pc = "stop" ->
                 [p |-> [p EXCEPT !.pc = "returned"],
                  sim |-> request_delta_v(s, p.v_stop),
                  calls |-> << p.v_stop >>]
          [] OTHER -> keep

----------------------------------------------------------------------------
(* Specification SpecProfile: HProfil.schrittweise_bis against a probe      *)
(* whose values are non-negative and never increase.  The autopilot thread  *)
(* keeps running (time.sleep returns), hence weak fairness of its steps;    *)
(* nothing is assumed about the probe.                                      *)

ProfMaxSteps == 6

(* Half of eps_abs in length units *)
HalfEps == PosScale \div (2 * EpsDen)

(* Probe values: multiples of eps_abs / 2 near 0, and values around 2 m     *)
(* whose distance is just at and just above eps_rel * 2 m                   *)
RestValues ==
    { k * HalfEps : k \in 0..ProfMaxSteps }
      \cup { 2 * PosScale, 2 * PosScale - 4 * HalfEps,
             2 * PosScale - 4 * HalfEps - 1 }

(* <<schwelle_langsam, schwelle_stop>>; the third pair is out of order *)
ProfThresholds ==
    { << 4 * HalfEps, HalfEps >>, << 2 * HalfEps, 2 * HalfEps >>,
      << HalfEps, 3 * HalfEps >>, << 2 * PosScale - 5 * HalfEps, 0 >> }

(* <<dv_beschleunigen, dv_abbremsen>> of takeoff/landing and of cruise *)
ProfDeltas ==
    { << DEFAULT_CFG.v_up, DEFAULT_CFG.v_up_to_slow >>,
      << DEFAULT_CFG.v_cruise, DEFAULT_CFG.v_cruise_to_slow >> }

NoObs == [seen |-> FALSE, rest_alt |-> 0, rest_neu |-> 0, ziel |-> 0,
          done |-> FALSE]

ProfInit ==
    /\ \E r \in RestValues, th \in ProfThresholds, dv \in ProfDeltas :
          prof = [pc |-> "run",
                  p |-> ProfilCall(th[1], th[2], dv[1], dv[2], DEFAULT_CFG),
                  remainder |-> r,
                  evals |-> 0, rest0 |-> 0, wevals |-> 0,
                  log |-> << >>, obs1 |-> NoObs, obs2 |-> NoObs]
    /\ sim = ResetState
    /\ ops = 0
    /\ last = NoLast
    /\ race = NoRace
    /\ plan = NoPlan
    /\ ap = NoAp

(* The step of schrittweise_bis at pc, with what the call's history records: *)
(* the requests made, and for each wait the values its last evaluation saw   *)
ProfDo(pc) ==
    /\ prof.pc = "run" /\ prof.p.pc = pc
    /\ LET r == ProfilStep(prof.p, prof.remainder, sim)
           isWait == pc \in {"p1_wait", "p2_wait"}
           isInit == pc \in {"p1_init", "p2_init"}
           done == r.p.pc # pc
           o == [seen |-> TRUE, rest_alt |-> prof.p.chk.rest_alt,
                 rest_neu |-> prof.remainder, ziel |-> prof.p.chk.ziel,
                 done |-> done]
       IN  /\ prof' = [prof EXCEPT
                 !.p = r.p,
                 !.log = @ \o r.calls,
                 !.evals = IF isWait THEN @ + 1 ELSE @,
                 !.rest0 = IF isInit THEN prof.remainder ELSE @,
                 !.wevals = IF isInit THEN 0
                            ELSE IF isWait THEN @ + 1 ELSE @,
                 !.obs1 = IF pc = "p1_wait" THEN o ELSE @,
                 !.obs2 = IF pc = "p2_wait" THEN o ELSE @]
           /\ sim' = r.sim
    /\ UNCHANGED <<ops, race, plan, ap, last>>

P1Init == ProfDo("p1_init")

P1Request == ProfDo("p1_request")

P1Wait == ProfDo("p1_wait")

P2Init == ProfDo("p2_init")

P2Request == ProfDo("p2_request")

P2Wait == ProfDo("p2_wait")

PStop == ProfDo("stop")

(* The probe's value falls (the engine moved) while the call runs *)
ProbeFalls ==
    /\ prof.pc = "run" /\ prof.p.pc # "returned"
    /\ \E r \in RestValues :
          /\ r < prof.remainder
          /\ prof' = [prof EXCEPT !.remainder = r]
    /\ UNCHANGED <<sim, ops, race, plan, ap, last>>

ProfProgram ==
    P1Init \/ P1Request \/ P1Wait \/ P2Init \/ P2Request \/ P2Wait \/ PStop

ProfNext ==
    \/ P1Init
    \/ P1Request
    \/ P1Wait
    \/ P2Init
    \/ P2Request
    \/ P2Wait
    \/ PStop
    \/ ProbeFalls

SpecProfile == ProfInit /\ [][ProfNext]_vars /\ WF_vars(ProfProgram)

(* A wait of the running call has evaluated its guard at most               *)
(* (remainder at its start) / eps_abs + 1 times                              *)
C5_EvalBound ==
    prof.pc = "run" =>
        \/ prof.wevals = 0
        \/ (prof.wevals - 1) * PosScale <= prof.rest0 * EpsDen

(* C5: with a non-negative, non-increasing probe every profile wait ends     *)
(* (so the call returns), after at most (initial remainder / eps_abs) + 1    *)
(* evaluations of its guard.                                                 *)
C5_WaitsTerminate ==
    /\ [](C5_EvalBound)
    /\ <>(prof.pc = "run" /\ prof.p.pc = "returned")

(* Both waits ended by stagnation, above their thresholds, after the probe   *)
(* had fallen during the wait                                                *)
C5_Witness ==
    /\ prof.pc = "run" /\ prof.p.pc = "returned"
    /\ prof.obs1.done /\ prof.obs1.rest_neu > prof.obs1.ziel
    /\ prof.obs2.done /\ prof.obs2.rest_neu > prof.obs2.ziel
    /\ prof.wevals >= 2
    /\ prof.evals >= 4

ProfExpectedCalls ==
    << prof.p.dv_beschleunigen, prof.p.dv_abbremsen, prof.p.v_stop >>

ObsReportedDone(o, schwelle) ==
    /\ o.seen /\ o.done /\ o.ziel = schwelle
    /\ \/ o.rest_neu <= schwelle
       \/ Stagniert(o.rest_alt, o.rest_neu)

(* C7: a call of schrittweise_bis issues request_delta_v exactly three       *)
(* times, in the order accelerate, decelerate, v_stop; the second only after *)
(* the slow guard reported done, the third only after the stop guard did.    *)
C7_ThreeRequestsInOrder ==
    prof.pc = "run" =>
        /\ Len(prof.log) <= 3
        /\ prof.log = SubSeq(ProfExpectedCalls, 1, Len(prof.log))
        /\ prof.p.pc = "returned" => Len(prof.log) = 3
        /\ Len(prof.log) >= 2 =>
               ObsReportedDone(prof.obs1, prof.p.schwelle_langsam)
        /\ Len(prof.log) >= 3 =>
               ObsReportedDone(prof.obs2, prof.p.schwelle_stop)
        /\ sim.delta_v = IF Len(prof.log) = 0 THEN 0
                         ELSE IF Len(prof.log) = 1 THEN prof.log[1]
                         ELSE IF Len(prof.log) = 2 THEN prof.log[1] + prof.log[2]
                         ELSE prof.log[1] + prof.log[2] + prof.log[3]

(* The call returned after both guards were met by their thresholds while    *)
(* the probe was still making progress                                       *)
C7_Witness ==
    /\ prof.pc = "run" /\ prof.p.pc = "returned"
    /\ Len(prof.log) = 3
    /\ prof.obs1.rest_neu <= prof.p.schwelle_langsam
    /\ ~Stagniert(prof.obs1.rest_alt, prof.obs1.rest_neu)
    /\ prof.obs2.rest_neu <= prof.p.schwelle_stop
    /\ ~Stagniert(prof.obs2.rest_alt, prof.obs2.rest_neu)

(* C8: the thresholds the profile works with satisfy                         *)
(* slow_at >= stop_at >= 0: the stop guard's goal never lies above the slow  *)
(* guard's goal.                                                             *)
C8_ThresholdsClamped ==
    (prof.pc = "run" /\ prof.p.pc \in {"p2_request", "p2_wait", "stop"}) =>
        /\ prof.obs1.seen
        /\ 0 <= prof.p.chk.ziel
        /\ prof.p.chk.ziel <= prof.obs1.ziel

(* The running call is in its wait w (1 or 2) or has just left it, and the   *)
(* probe has stayed at the value it had when the wait's guard was built,     *)
(* above the wait's threshold                                                *)
ConstantProbeWait(w) ==
    LET o == IF w = 1 THEN prof.obs1 ELSE prof.obs2
    IN  /\ prof.pc = "run"
        /\ prof.p.pc \in (IF w = 1 THEN {"p1_wait", "p2_init"} ELSE {"p2_wait", "stop"})
        /\ prof.wevals >= 1
        /\ o.seen /\ o.rest_neu = prof.rest0 /\ o.rest_alt = prof.rest0
        /\ prof.rest0 > o.ziel

(* C21: if the engine is not ticking (the remainder probe stays constant    *)
(* above the threshold), a wait inside schrittweise_bis never returns.      *)
C21_ConstantProbeNeverReturns ==
    /\ ConstantProbeWait(1) => prof.p.pc = "p1_wait"
    /\ ConstantProbeWait(2) => prof.p.pc = "p2_wait"

(* C21 as amended: if the remainder probe stays constant above the          *)
(* threshold, a wait inside schrittweise_bis returns at the first           *)
(* evaluation of its guard: no progress counts as stagnation, which the     *)
(* guard reports as done.                                                   *)
C21_ConstantProbeReturnsAtOnce ==
    /\ ConstantProbeWait(1) =>
           prof.p.pc = "p2_init" /\ prof.wevals = 1 /\ prof.obs1.done
    /\ ConstantProbeWait(2) =>
           prof.p.pc = "stop" /\ prof.wevals = 1 /\ prof.obs2.done

(* Both waits have ended at their first evaluation with the probe at 2 m    *)
(* throughout, above both thresholds                                        *)
C21_Witness ==
    /\ ConstantProbeWait(2)
    /\ prof.obs1.seen /\ prof.obs1.done
    /\ prof.obs1.rest_alt = prof.remainder /\ prof.obs1.rest_neu = prof.remainder
    /\ prof.remainder = 2 * PosScale
    /\ prof.remainder > prof.p.schwelle_langsam
    /\ prof.evals = 2

----------------------------------------------------------------------------
(* The autopilot's manoeuvres (ufo_autopilot.py)                            *)

(* Angles are in 1/MilliDeg degree *)
MilliDeg == 1000

(* The series of core.angel stops at the first term that is not above      *)
(* 10^-6: a slope below 1/AngelEpsDen (or its inverse) sums to nothing      *)
AngelEpsDen == 1000000

(* core.angel.angel(0, 0, dx, dy) for dx, dy >= 0 in metres: the angle in   *)
(* [0, 90] degrees of the ray to (dx, dy), i.e. atan2(dy, dx) in degrees;   *)
(* exactly 0 or 90 where the slope or its inverse is below the series'      *)
(* precision, and tabulated for the slopes 3/4, 1 and 4/3.                  *)
angel(x1, y1, x2, y2) ==
    LET dx == x2 - x1
        dy == y2 - y1
    IN  IF dx = 0 /\ dy = 0 THEN 0
        ELSE IF dx = 0 THEN 90 * MilliDeg
        ELSE IF dy = 0 THEN 0
        ELSE IF dy <= (dx - 1) \div AngelEpsDen THEN 0
        ELSE IF dx <= (dy - 1) \div AngelEpsDen THEN 90 * MilliDeg
        ELSE IF dy * 3 = dx * 4 THEN 53130
        ELSE IF dy * 4 = dx * 3 THEN 36870
        ELSE 45 * MilliDeg

(* angle with the first-quadrant angle added in every quadrant *)
angle_AlwaysAdds(x1, y1, x2, y2) ==
    LET dx == x2 - x1
        dy == y2 - y1
        circle == 360 * MilliDeg
        phi == angel(0, 0, Abs(dx), Abs(dy))
        sx == dx >= 0
        sy == dy >= 0
        base == (IF ~sx THEN circle \div 2 ELSE 0)
                  + (IF sx /\ ~sy THEN circle ELSE 0)
    IN  (base + phi) % circle

(* angle: the absolute angle in [0, 360) of P1 -> P2 *)
angle(x1, y1, x2, y2) ==
    LET dx == x2 - x1
        dy == y2 - y1
        circle == 360 * MilliDeg
        phi == angel(0, 0, Abs(dx), Abs(dy))
        sx == dx >= 0
        sy == dy >= 0
        base == (IF ~sx THEN circle \div 2 ELSE 0)
                  + (IF sx /\ ~sy THEN circle ELSE 0)
    IN  (base + (IF sx = sy THEN phi ELSE -phi)) % circle

(* round() with ties rounded up instead of to the even integer *)
RoundHalfEven_HalfUp(grad) ==
    LET q == grad \div MilliDeg
        r == grad % MilliDeg
    IN  IF 2 * r >= MilliDeg THEN q + 1 ELSE q

(* Python's round(): to the nearest integer, ties to the even one *)
RoundHalfEven(grad) ==
    LET q == grad \div MilliDeg
        r == grad % MilliDeg
    IN  IF 2 * r > MilliDeg THEN q + 1
        ELSE IF 2 * r < MilliDeg THEN q
        ELSE IF q % 2 = 0 THEN q ELSE q + 1

(* HProfil.richtung_als_int *)
richtung_als_int(grad) == RoundHalfEven(grad) % 360

(* NavOps.dir_to_int *)
dir_to_int(deg) == RoundHalfEven(deg) % 360

RECURSIVE ISqrtIn(_, _, _)
(* The largest r in lo..hi with r * r <= n *)
ISqrtIn(n, lo, hi) ==
    IF lo >= hi THEN lo
    ELSE LET mid == (lo + hi + 1) \div 2
         IN  IF mid * mid <= n THEN ISqrtIn(n, mid, hi)
             ELSE ISqrtIn(n, lo, mid - 1)

(* Length units per millimetre *)
UnitsPerMm == PosScale \div 1000

(* distance: hypot of the differences, computed in millimetres *)
distance(x1, y1, x2, y2) ==
    LET dx == Abs(x2 - x1) \div UnitsPerMm
        dy == Abs(y2 - y1) \div UnitsPerMm
    IN  ISqrtIn(dx * dx + dy * dy, 0, dx + dy) * UnitsPerMm

(* A slip: the upper limit left out *)
_begrenze_neigung_deg_NoUpper(cfg, deg) == Max(cfg.neigung_sinken_deg, deg)

_begrenze_neigung_deg(cfg, deg) ==
    Max(cfg.neigung_sinken_deg, Min(cfg.neigung_steigen_deg, deg))

(* The inclination commanded through the delta channel instead *)
_set_neigung_ViaRequest(s, cfg, neigung_deg) ==
    request_delta_i(s, _begrenze_neigung_deg(cfg, neigung_deg) - s.i)

_set_neigung(s, cfg, neigung_deg) == set_i(s, _begrenze_neigung_deg(cfg, neigung_deg))

----------------------------------------------------------------------------
(* Specification SpecFly: takeoff, cruise, landing or fly_to on the         *)
(* autopilot thread while the simulator thread ticks.  A tick is one step   *)
(* here; the statements of a manoeuvre that touch the simulator are one     *)
(* step each.  Both threads keep running: weak fairness of each.  The run   *)
(* is followed until the call returns; takeoff may then be called again.    *)
(* ap.log lists the engine commands the autopilot has issued, ap.mark is    *)
(* the length of the log when the current call began and ap.waited tells    *)
(* whether the current call has evaluated a guard.                          *)

FlyMaxTicks == 7

FlyMaxCalls == 2

(* Target heights of takeoff and target points of cruise, in metres *)
TakeoffTargets == {0, 10}

CruiseTargets == { <<3, 4>>, <<-3, 4>>, <<4, -3>>, <<-4, -3>> }

(* Inclination limits <<neigung_sinken_deg, neigung_steigen_deg,            *)
(* neigung_neutral_deg>>: the defaults, narrower limits, a neutral value    *)
(* above the limits, and limits in the wrong order                          *)
FlyNeigungen ==
    { <<-90, 90, 0>>, <<-45, 45, 0>>, <<-30, 60, 75>>, <<10, 5, 0>> }

FlyCfg(n) ==
    [DEFAULT_CFG EXCEPT !.neigung_sinken_deg = n[1],
                        !.neigung_steigen_deg = n[2],
                        !.neigung_neutral_deg = n[3]]

FlyFrame(kind, x, y, z, use_heuristic, conf) ==
    [pc |-> IF kind \in {"takeoff", "fly_to"} THEN "t_rest"
            ELSE IF kind = "cruise" THEN "c_get_x" ELSE "l_sinken",
     kind |-> kind,
     phase |-> IF kind = "fly_to" THEN "takeoff" ELSE kind,
     x |-> x, y |-> y, z |-> z,
     use_heuristic |-> use_heuristic,
     conf |-> conf,
     rest |-> 0, sx |-> 0, sy |-> 0, distanz |-> 0,
     p |-> ProfilCall(0, 0, 0, 0, conf),
     log |-> << >>, mark |-> 0, waited |-> FALSE, calls |-> 0,
     reads |-> << >>]

(* The engine hovering after a climb: reset(), request_delta_v(n), n ticks, *)
(* request_delta_v(-n), n ticks, set_i(0).  n = 2 leaves it 0.11 m above    *)
(* the ground, n = 6 1 m.                                                    *)
Hover(n) ==
    set_i(IterTick(request_delta_v(IterTick(request_delta_v(ResetState, n), n),
                                   -n), n), 0)

HoverClimbs == {2, 6}

(* What cruise has read of the engine, with the engine's position and       *)
(* distance at the moment of the read                                       *)
ReadOf(s) == [x |-> s.x, y |-> s.y, dist |-> s.dist]

FlyInit ==
    /\ ops = 0
    /\ last = NoLast
    /\ race = NoRace
    /\ plan = NoPlan
    /\ prof = NoProf
    /\ \/ /\ sim = ResetState
          /\ \E z \in TakeoffTargets, h \in BOOLEAN, n \in FlyNeigungen :
                ap = FlyFrame("takeoff", 0, 0, z * PosScale, h, FlyCfg(n))
       \/ /\ sim = ResetState
          /\ \E t \in CruiseTargets :
                ap = FlyFrame("cruise", t[1] * PosScale, t[2] * PosScale, 0,
                              FALSE, DEFAULT_CFG)
       \/ /\ sim = ResetState
          /\ \E n \in FlyNeigungen :
                ap = FlyFrame("landing", 0, 0, 0, FALSE, FlyCfg(n))
       \/ /\ \E n \in HoverClimbs : sim = Hover(n)
          /\ ap = FlyFrame("landing", 0, 0, 0, FALSE, DEFAULT_CFG)
       \/ /\ sim = ResetState
          /\ \E z \in TakeoffTargets :
                ap = FlyFrame("fly_to", 3 * PosScale, 4 * PosScale, z * PosScale,
                              FALSE, DEFAULT_CFG)

FlyKeep == UNCHANGED <<ops, race, plan, prof, last>>

(* An engine command as the log records it *)
Cmd(phase, op, arg) == [phase |-> phase, op |-> op, arg |-> arg]

(* The frame with a call of _set_neigung logged: the value sent is the      *)
(* clamped one                                                              *)
LogNeigung(a, neigung_deg) ==
    [a EXCEPT !.log = Append(@, Cmd(a.phase, "set_i",
                                    _begrenze_neigung_deg(a.conf, neigung_deg)))]

(* A slip in fly_to: landing called before cruise *)
AfterManoeuvre_LandsFirst(a) ==
    IF a.kind = "fly_to" /\ a.phase = "takeoff"
    THEN [a EXCEPT !.pc = "l_sinken", !.phase = "landing"]
    ELSE IF a.kind = "fly_to" /\ a.phase = "landing"
    THEN [a EXCEPT !.pc = "c_get_x", !.phase = "cruise"]
    ELSE [a EXCEPT !.pc = "returned", !.calls = @ + 1]

(* A manoeuvre returns: inside fly_to (lines 367-369) the next manoeuvre    *)
(* begins, otherwise the call is over                                       *)
AfterManoeuvre(a) ==
    IF a.kind = "fly_to" /\ a.phase = "takeoff"
    THEN [a EXCEPT !.pc = "c_get_x", !.phase = "cruise"]
    ELSE IF a.kind = "fly_to" /\ a.phase = "cruise"
    THEN [a EXCEPT !.pc = "l_sinken", !.phase = "landing"]
    ELSE [a EXCEPT !.pc = "returned", !.calls = @ + 1]

(* A slip: the early return for "already there" left out *)
TakeoffRest_AlwaysClimbs ==
    /\ ap.pc = "t_rest"
    /\ ap' = [ap EXCEPT !.rest = Max(ap.z - sim.z, 0), !.pc = "t_steigen"]
    /\ UNCHANGED sim
    /\ FlyKeep

(* takeoff lines 253-254 *)
TakeoffRest ==
    /\ ap.pc = "t_rest"
    /\ LET rest == Max(ap.z - sim.z, 0)
       IN  ap' = [ap EXCEPT !.rest = rest,
                     !.pc = IF rest <= ap.conf.stop_z THEN "t_neutral_only"
                            ELSE "t_steigen"]
    /\ UNCHANGED sim
    /\ FlyKeep

(* takeoff line 255 *)
TakeoffNeutralOnly ==
    /\ ap.pc = "t_neutral_only"
    /\ sim' = _set_neigung(sim, ap.conf, ap.conf.neigung_neutral_deg)
    /\ ap' = AfterManoeuvre(LogNeigung(ap, ap.conf.neigung_neutral_deg))
    /\ FlyKeep

(* takeoff line 258 *)
TakeoffSteigen ==
    /\ ap.pc = "t_steigen"
    /\ sim' = _set_neigung(sim, ap.conf, ap.conf.neigung_steigen_deg)
    /\ ap' = [LogNeigung(ap, ap.conf.neigung_steigen_deg) EXCEPT !.pc = "t_plan"]
    /\ FlyKeep

(* takeoff lines 260-274: the plan and the call of schrittweise_bis *)
TakeoffPlan ==
    /\ ap.pc = "t_plan"
    /\ LET pl == Bremsberechnung(ap.conf, ap.rest, ap.use_heuristic)
       IN  ap' = [ap EXCEPT !.pc = "profile",
                     !.p = ProfilCall(pl[1], pl[2], ap.conf.v_up,
                                      ap.conf.v_up_to_slow, ap.conf)]
    /\ UNCHANGED sim
    /\ FlyKeep

(* takeoff line 276 *)
TakeoffNeutral ==
    /\ ap.pc = "t_neutral"
    /\ sim' = _set_neigung(sim, ap.conf, ap.conf.neigung_neutral_deg)
    /\ ap' = AfterManoeuvre(LogNeigung(ap, ap.conf.neigung_neutral_deg))
    /\ FlyKeep

(* takeoff is called once more after it returned *)
TakeoffAgain ==
    /\ ap.pc = "returned" /\ ap.kind = "takeoff"
    /\ ap.calls < FlyMaxCalls
    /\ ap' = [ap EXCEPT !.pc = "t_rest", !.mark = Len(ap.log), !.waited = FALSE]
    /\ UNCHANGED sim
    /\ FlyKeep

(* cruise line 299 *)
CruiseGetX ==
    /\ ap.pc = "c_get_x"
    /\ ap' = [ap EXCEPT !.sx = sim.x, !.pc = "c_get_y",
                 !.reads = << ReadOf(sim) >>]
    /\ UNCHANGED sim
    /\ FlyKeep

(* cruise line 300 *)
CruiseGetY ==
    /\ ap.pc = "c_get_y"
    /\ ap' = [ap EXCEPT !.sy = sim.y, !.pc = "c_set_d",
                 !.reads = Append(@, ReadOf(sim))]
    /\ UNCHANGED sim
    /\ FlyKeep

(* cruise lines 302-304 *)
CruiseSetD ==
    /\ ap.pc = "c_set_d"
    /\ LET a == angle(ap.sx \div PosScale, ap.sy \div PosScale,
                      ap.x \div PosScale, ap.y \div PosScale)
           grad == richtung_als_int(a)
       IN  /\ sim' = set_d(sim, grad)
           /\ ap' = [ap EXCEPT !.pc = "c_distanz",
                        !.log = Append(@, Cmd(ap.phase, "set_d", grad))]
    /\ FlyKeep

(* cruise lines 306-316: the target distance and the call of schrittweise_bis *)
CruiseDistanz ==
    /\ ap.pc = "c_distanz"
    /\ ap' = [ap EXCEPT !.distanz = sim.dist + distance(ap.sx, ap.sy, ap.x, ap.y),
                 !.reads = Append(@, ReadOf(sim)),
                 !.pc = "profile",
                 !.p = ProfilCall(ap.conf.slow_h, ap.conf.stop_h, ap.conf.v_cruise,
                                  ap.conf.v_cruise_to_slow, ap.conf)]
    /\ UNCHANGED sim
    /\ FlyKeep

(* landing lines 332-342: the descent inclination and the call of           *)
(* schrittweise_bis                                                         *)
LandingSinken ==
    /\ ap.pc = "l_sinken"
    /\ sim' = _set_neigung(sim, ap.conf, ap.conf.neigung_sinken_deg)
    /\ ap' = [LogNeigung(ap, ap.conf.neigung_sinken_deg) EXCEPT
                 !.pc = "profile",
                 !.p = ProfilCall(ap.conf.landing_slow_z, 0, ap.conf.v_up,
                                  ap.conf.v_up_to_slow, ap.conf)]
    /\ FlyKeep

(* landing line 344 *)
LandingNeutral ==
    /\ ap.pc = "l_neutral"
    /\ sim' = _set_neigung(sim, ap.conf, ap.conf.neigung_neutral_deg)
    /\ ap' = AfterManoeuvre(LogNeigung(ap, ap.conf.neigung_neutral_deg))
    /\ FlyKeep

(* The remainder probe the manoeuvre hands to schrittweise_bis              *)
(* (takeoff line 268, cruise line 310, landing line 336)                    *)
FlyRest ==
    IF ap.phase = "takeoff" THEN Max(ap.z - sim.z, 0)
    ELSE IF ap.phase = "cruise" THEN Max(ap.distanz - sim.dist, 0)
    ELSE Max(sim.z, 0)

(* One step of the running schrittweise_bis *)
FlyProfil ==
    /\ ap.pc = "profile" /\ ap.p.pc # "returned"
    /\ LET r == ProfilStep(ap.p, FlyRest, sim)
           c == IF r.calls = << >> THEN << >>
                ELSE << Cmd(ap.phase, "request_delta_v", r.calls[1]) >>
       IN  /\ ap' = [ap EXCEPT !.p = r.p,
                        !.log = @ \o c,
                        !.waited = @ \/ ap.p.pc \in {"p1_wait", "p2_wait"}]
           /\ sim' = r.sim
    /\ FlyKeep

(* schrittweise_bis returns to the manoeuvre *)
FlyProfilReturns ==
    /\ ap.pc = "profile" /\ ap.p.pc = "returned"
    /\ ap' = IF ap.phase = "takeoff" THEN [ap EXCEPT !.pc = "t_neutral"]
             ELSE IF ap.phase = "landing" THEN [ap EXCEPT !.pc = "l_neutral"]
             ELSE AfterManoeuvre(ap)
    /\ UNCHANGED sim
    /\ FlyKeep

(* The simulator thread: one __update_sim while the call runs *)
FlyTick ==
    /\ ap.pc # "off" /\ ap.pc # "returned"
    /\ ops < FlyMaxTicks
    /\ sim' = UpdateSim(sim)
    /\ ops' = ops + 1
    /\ UNCHANGED <<ap, race, plan, prof, last>>

FlyProgram ==
    \/ TakeoffRest \/ TakeoffNeutralOnly \/ TakeoffSteigen \/ TakeoffPlan
    \/ TakeoffNeutral \/ CruiseGetX \/ CruiseGetY \/ CruiseSetD
    \/ CruiseDistanz \/ LandingSinken \/ LandingNeutral
    \/ FlyProfil \/ FlyProfilReturns

FlyNext ==
    \/ TakeoffRest
    \/ TakeoffNeutralOnly
    \/ TakeoffSteigen
    \/ TakeoffPlan
    \/ TakeoffNeutral
    \/ TakeoffAgain
    \/ CruiseGetX
    \/ CruiseGetY
    \/ CruiseSetD
    \/ CruiseDistanz
    \/ LandingSinken
    \/ LandingNeutral
    \/ FlyProfil
    \/ FlyProfilReturns
    \/ FlyTick

SpecFly == FlyInit /\ [][FlyNext]_vars /\ WF_vars(FlyProgram) /\ WF_vars(FlyTick)

(* C3: takeoff(sim, 10) with the default configuration, started from the    *)
(* reset state while the tick loop runs, returns with z within stop_z of    *)
(* 10 m and inclination 0.                                                  *)
C3_TakeoffReachesHeight ==
    (ap.pc = "returned" /\ ap.kind = "takeoff" /\ ap.z = 10 * PosScale
         /\ ~ap.use_heuristic /\ ap.conf = DEFAULT_CFG /\ ap.calls = 1) =>
        /\ Abs(sim.z - ap.z) <= ap.conf.stop_z
        /\ sim.i = 0

(* C4: cruise(sim, 3, 4) with the default configuration, called at (0, 0)   *)
(* with dist = 0 while the tick loop runs, sets the heading to 53 degrees   *)
(* and returns with get_dist() within stop_h of 5.0 m.                      *)
C4_CruiseReachesDistance ==
    (ap.pc = "returned" /\ ap.kind = "cruise" /\ ap.conf = DEFAULT_CFG
         /\ ap.x = 3 * PosScale /\ ap.y = 4 * PosScale) =>
        /\ sim.d = 53
        /\ Abs(sim.dist - 5 * PosScale) <= ap.conf.stop_h

(* The commands of the current call *)
CallLog == SubSeq(ap.log, ap.mark + 1, Len(ap.log))

(* C17: when max(z_target - get_z(), 0) <= stop_z at the call, takeoff      *)
(* issues no request_delta_v and waits for nothing: its only engine command *)
(* is one set_i of the neutral inclination (as _set_neigung limits it), in  *)
(* a first call and in a repeated one.                                      *)
C17_TakeoffAtHeightOnlyNeutral ==
    (ap.kind = "takeoff" /\ ap.pc = "returned" /\ ap.rest <= ap.conf.stop_z) =>
        /\ Len(CallLog) = 1
        /\ CallLog[1].op = "set_i"
        /\ CallLog[1].arg =
               Max(ap.conf.neigung_sinken_deg,
                   Min(ap.conf.neigung_steigen_deg, ap.conf.neigung_neutral_deg))
        /\ ~ap.waited

(* takeoff(sim, 0) on the ground has returned from its second call *)
C17_Witness ==
    /\ ap.kind = "takeoff" /\ ap.pc = "returned" /\ ap.calls = 2
    /\ ap.conf = DEFAULT_CFG
    /\ ap.rest <= ap.conf.stop_z
    /\ ap.mark = 1 /\ Len(ap.log) = 2
    /\ ap.log[1].op = "set_i" /\ ap.log[2].op = "set_i"
    /\ sim.i = 0 /\ sim.delta_v = 0

PhaseLog(ph) == SelectSeq(ap.log, LAMBDA c : c.phase = ph)

IsPrefix(s, u) == Len(s) <= Len(u) /\ s = SubSeq(u, 1, Len(s))

(* The complete command lists of the three manoeuvres of fly_to *)
ProfilCmds(ph, dv1, dv2) ==
    << Cmd(ph, "request_delta_v", dv1), Cmd(ph, "request_delta_v", dv2),
       Cmd(ph, "request_delta_v", ap.conf.v_stop) >>

TakeoffCmds ==
    { << Cmd("takeoff", "set_i", ap.conf.neigung_neutral_deg) >>,
      << Cmd("takeoff", "set_i", ap.conf.neigung_steigen_deg) >>
         \o ProfilCmds("takeoff", ap.conf.v_up, ap.conf.v_up_to_slow)
         \o << Cmd("takeoff", "set_i", ap.conf.neigung_neutral_deg) >> }

CruiseCmds ==
    { << Cmd("cruise", "set_d", g) >>
         \o ProfilCmds("cruise", ap.conf.v_cruise, ap.conf.v_cruise_to_slow)
      : g \in 0..359 }

LandingCmds ==
    { << Cmd("landing", "set_i", ap.conf.neigung_sinken_deg) >>
         \o ProfilCmds("landing", ap.conf.v_up, ap.conf.v_up_to_slow)
         \o << Cmd("landing", "set_i", ap.conf.neigung_neutral_deg) >> }

(* C18: fly_to issues its engine commands in the order takeoff, cruise,     *)
(* landing: the log is the commands of takeoff, then those of cruise, then  *)
(* those of landing, and a manoeuvre has issued all its commands before     *)
(* the next one issues its first.                                           *)
C18_FlyToPhaseOrder ==
    ap.kind = "fly_to" =>
        /\ ap.log = PhaseLog("takeoff") \o PhaseLog("cruise") \o PhaseLog("landing")
        /\ \E full \in TakeoffCmds : IsPrefix(PhaseLog("takeoff"), full)
        /\ \E full \in CruiseCmds : IsPrefix(PhaseLog("cruise"), full)
        /\ \E full \in LandingCmds : IsPrefix(PhaseLog("landing"), full)
        /\ PhaseLog("cruise") # << >> => PhaseLog("takeoff") \in TakeoffCmds
        /\ PhaseLog("landing") # << >> => PhaseLog("cruise") \in CruiseCmds
        /\ ap.pc = "returned" => PhaseLog("landing") \in LandingCmds

(* fly_to(3, 4, 10) has returned after a climbing takeoff, the cruise and   *)
(* the landing, with ticks in between                                       *)
C18_Witness ==
    /\ ap.kind = "fly_to" /\ ap.pc = "returned"
    /\ Len(PhaseLog("takeoff")) = 5
    /\ Len(PhaseLog("cruise")) = 4
    /\ Len(PhaseLog("landing")) = 5
    /\ ops >= 3

(* C19: the autopilot changes engine state only by request_delta_v/d/i: it  *)
(* never writes heading, inclination or another field by a direct setter.   *)
C19_OnlyDeltaRequests ==
    \A k \in 1..Len(ap.log) :
        ap.log[k].op \in {"request_delta_v", "request_delta_d", "request_delta_i"}

(* An autopilot step leaves every engine field but delta_v, i and d *)
OnlyDeltaVAndAngles ==
    ap' # ap => sim' = [sim EXCEPT !.delta_v = sim'.delta_v, !.i = sim'.i,
                                   !.d = sim'.d]

(* C19 as amended: the autopilot changes engine state only through          *)
(* request_delta_v, set_i (takeoff and landing) and set_d (cruise): it      *)
(* never uses request_delta_d or request_delta_i, and a step of the         *)
(* autopilot changes no engine field other than the pending delta_v, the    *)
(* inclination i and the heading d.                                         *)
C19_DeltaVAndAngleSetters ==
    /\ [](\A k \in 1..Len(ap.log) :
             \/ ap.log[k].op = "request_delta_v"
             \/ ap.log[k].op = "set_i" /\ ap.log[k].phase \in {"takeoff", "landing"}
             \/ ap.log[k].op = "set_d" /\ ap.log[k].phase = "cruise")
    /\ [][OnlyDeltaVAndAngles]_vars

(* fly_to has set the inclination and the heading directly and requested    *)
(* speed changes                                                            *)
C19_Witness ==
    /\ ap.kind = "fly_to" /\ ap.pc = "returned"
    /\ \E k \in 1..Len(ap.log) : ap.log[k].op = "set_i" /\ ap.log[k].arg = 90
    /\ \E k \in 1..Len(ap.log) : ap.log[k].op = "set_d" /\ ap.log[k].arg = 53
    /\ \E k \in 1..Len(ap.log) : ap.log[k].op = "request_delta_v"
    /\ sim.d = 53 /\ sim.delta_d = 0 /\ sim.delta_i = 0

InclinationsSent == { ap.log[k].arg : k \in { j \in 1..Len(ap.log) : ap.log[j].op = "set_i" } }

(* C20: for every configuration, every inclination the autopilot sends      *)
(* lies in [cfg.neigung_sinken_deg, cfg.neigung_steigen_deg].               *)
C20_InclinationWithinLimits ==
    \A n \in InclinationsSent :
        ap.conf.neigung_sinken_deg <= n /\ n <= ap.conf.neigung_steigen_deg

(* C20 as amended: for every configuration with neigung_sinken_deg <=       *)
(* neigung_steigen_deg, every inclination the autopilot sends lies in       *)
(* [cfg.neigung_sinken_deg, cfg.neigung_steigen_deg].                       *)
C20_InclinationWithinOrderedLimits ==
    ap.conf.neigung_sinken_deg <= ap.conf.neigung_steigen_deg =>
        \A n \in InclinationsSent :
            ap.conf.neigung_sinken_deg <= n /\ n <= ap.conf.neigung_steigen_deg

(* takeoff with a neutral inclination above the limits has sent the upper   *)
(* limit in its place                                                       *)
C20_Witness ==
    /\ ap.kind = "takeoff" /\ ap.pc = "returned"
    /\ ap.conf.neigung_neutral_deg > ap.conf.neigung_steigen_deg
    /\ ap.conf.neigung_sinken_deg <= ap.conf.neigung_steigen_deg
    /\ Len(ap.log) = 5
    /\ ap.log[5] = Cmd("takeoff", "set_i", ap.conf.neigung_steigen_deg)
    /\ sim.i = ap.conf.neigung_steigen_deg

(* C23: with the tick loop running concurrently and the autopilot polling   *)
(* as late as it may, landing() with the default configuration, from the    *)
(* ground or from an altitude reached by a climb, never drives the engine   *)
(* into the crashed state z = -1, and when it has returned and the engine   *)
(* has come to rest, z = 0, v = 0 and the inclination is neutral.           *)
C23_LandingNeverCrashes ==
    (ap.kind = "landing" /\ ap.conf = DEFAULT_CFG) =>
        /\ sim.z # Crashed
        /\ (ap.pc = "returned" /\ sim.v = 0 /\ sim.delta_v = 0) =>
               /\ sim.z = 0 /\ sim.zeps = 0
               /\ sim.i = ap.conf.neigung_neutral_deg

(* The engine after its pending delta_v has drained: |delta_v| more ticks *)
ComeToRest(s) == IterTick(s, Abs(s.delta_v))

C28_CruiseReadsOneState ==
    (ap.phase = "cruise" /\ Len(ap.reads) = 3) =>
        \E k \in 1..3 :
            /\ ap.reads[k].x = ap.sx
            /\ ap.reads[k].y = ap.sy
            /\ ap.distanz = ap.reads[k].dist + distance(ap.sx, ap.sy, ap.x, ap.y)

----------------------------------------------------------------------------
(* Specification SpecGeo: GeometryUtil.bremsweg on bounded inputs           *)

(* A slip: no braking possible reported as braking distance 0 *)
bremsweg_ZeroForNoBraking(v0, v1, a_neg, v_unit) ==
    IF Abs(a_neg) = 0 THEN [raised |-> FALSE, inf |-> FALSE, value |-> 0]
    ELSE IF ToMpsRaises(v_unit) THEN [raised |-> TRUE, inf |-> FALSE, value |-> 0]
    ELSE [raised |-> FALSE, inf |-> FALSE,
          value |-> DecelLength(ToMps(v0, v_unit), ToMps(v1, v_unit), Abs(a_neg))]

(* GeometryUtil.bremsweg: [raised |-> ValueError raised, inf |-> the result *)
(* is math.inf, value |-> the finite result in length units]                *)
bremsweg(v0, v1, a_neg, v_unit) ==
    IF Abs(a_neg) = 0 THEN [raised |-> FALSE, inf |-> TRUE, value |-> 0]
    ELSE IF ToMpsRaises(v_unit) THEN [raised |-> TRUE, inf |-> FALSE, value |-> 0]
    ELSE [raised |-> FALSE, inf |-> FALSE,
          value |-> DecelLength(ToMps(v0, v_unit), ToMps(v1, v_unit), Abs(a_neg))]

GeoMaxV == 5

(* Speeds, in the unit of the call *)
GeoSpeeds == 0..GeoMaxV

(* Accelerations in 1/AccScale m/s^2, of both signs and 0 *)
GeoAccelerations ==
    { -2 * AccScale, -AccScale, -(AccScale \div 4), 0,
      AccScale \div 4, AccScale, 3 * AccScale }

GeoUnits == { "mps", "kmh", "km/h", "knots" }

GeoInit ==
    /\ \E v0 \in GeoSpeeds, v1 \in GeoSpeeds, a \in GeoAccelerations,
          u \in GeoUnits :
          plan = [pc |-> "g_call", v0 |-> v0, v1 |-> v1, a |-> a, v_unit |-> u,
                  res |-> [raised |-> FALSE, inf |-> FALSE, value |-> 0]]
    /\ sim = ResetState
    /\ ops = 0
    /\ last = NoLast
    /\ race = NoRace
    /\ prof = NoProf
    /\ ap = NoAp

CallBremsweg ==
    /\ plan.pc = "g_call"
    /\ plan' = [plan EXCEPT !.pc = "g_returned",
                   !.res = bremsweg(plan.v0, plan.v1, plan.a, plan.v_unit)]
    /\ UNCHANGED <<sim, ops, race, prof, ap, last>>

GeoNext == CallBremsweg

SpecGeo == GeoInit /\ [][GeoNext]_vars

(* C11: bremsweg(v0, v1, a) in m/s is (v0^2 - v1^2) / (2 * |a|) >= 0 for    *)
(* a # 0 and v1 <= v0 (here: that quotient in length units, rounded down),  *)
(* 0 when v1 >= v0, the same for a and -a, and infinity for a = 0.          *)
C11_BremswegFormula ==
    (plan.pc = "g_returned" /\ plan.v_unit = "mps") =>
        LET absa == IF plan.a < 0 THEN -plan.a ELSE plan.a
            n == (plan.v0 * plan.v0 - plan.v1 * plan.v1) * AccScale * PosScale
        IN  /\ ~plan.res.raised
            /\ plan.res.inf <=> plan.a = 0
            /\ plan.a # 0 =>
                  /\ plan.res.value >= 0
                  /\ plan.v1 >= plan.v0 => plan.res.value = 0
                  /\ plan.v1 <= plan.v0 =>
                        /\ plan.res.value * 2 * absa <= n
                        /\ n < (plan.res.value + 1) * 2 * absa

(* A call with a positive a and v1 < v0 returned a positive finite distance *)
C11_Witness ==
    /\ plan.pc = "g_returned" /\ plan.v_unit = "mps"
    /\ plan.a > 0 /\ plan.v1 < plan.v0 /\ plan.v1 > 0
    /\ ~plan.res.inf /\ plan.res.value > PosScale

----------------------------------------------------------------------------
(* Specification SpecStep: single engine operations from the states the     *)
(* engine can be in, with the state before the last operation remembered.   *)
(* After a tick z <= 0 implies v = 0 (lines 188-194), reset() sets v = 0,   *)
(* and nothing else changes v or z: on the ground and crashed, v is 0.      *)

StepMaxDelta == 2

StepMaxTicks == 2

(* <<z, zeps>>: crashed, on the ground, just above the ground after a tick  *)
(* at inclination 0, 1/60 m, 0.1 m and 10 m                                 *)
StepHeights ==
    { <<Crashed, 0>>, <<0, 0>>, <<0, 1>>, <<PosScale \div 60, 0>>,
      <<PosScale \div 10, 0>>, <<10 * PosScale, 0>> }

StepSpeeds == {0, 1, 2, VMAX - 1, VMAX}

StepHeadings == {0, 90, 359}

StepInclinations == {-90, -1, 0, 90}

StepDeltas == (-StepMaxDelta)..StepMaxDelta

(* Whether the engine has flown: then dist and ftime are those of a         *)
(* vertical flight of 20 m in 20 s                                          *)
StepState(h, flown, v, d, i, dv, dd, di) ==
    [x |-> 0, y |-> 0, z |-> h[1], zeps |-> h[2], v |-> v, d |-> d, i |-> i,
     dist |-> IF flown THEN 20 * PosScale ELSE 0,
     ftime |-> IF flown THEN 200 ELSE 0,
     delta_v |-> dv, delta_d |-> dd, delta_i |-> di]

StepInit ==
    /\ \E h \in StepHeights, flown \in BOOLEAN, v \in StepSpeeds,
          d \in StepHeadings, i \in StepInclinations,
          dv \in StepDeltas, dd \in StepDeltas, di \in StepDeltas :
          /\ (h[1] <= 0 /\ h[2] = 0) => v = 0
          /\ (h[1] # 0 \/ h[2] = 1) => flown
          /\ sim = StepState(h, flown, v, d, i, dv, dd, di)
    /\ ops = 0
    /\ last = NoLast
    /\ race = NoRace
    /\ plan = NoPlan
    /\ prof = NoProf
    /\ ap = NoAp

StepKeep == UNCHANGED <<race, plan, prof, ap>>

(* One __update_sim.  start is the engine before the first tick of the      *)
(* current run of n ticks in a row.                                         *)
StepTick ==
    /\ ops < StepMaxTicks
    /\ last' = [pc |-> "tick", before |-> sim,
                start |-> IF last.pc = "tick" THEN last.start ELSE sim,
                n |-> IF last.pc = "tick" THEN last.n + 1 ELSE 1]
    /\ sim' = UpdateSim(sim)
    /\ ops' = ops + 1
    /\ StepKeep

(* One reset() *)
StepReset ==
    /\ last.pc # "reset"
    /\ last' = [pc |-> "reset", before |-> sim, start |-> sim, n |-> 0]
    /\ sim' = ResetState
    /\ UNCHANGED ops
    /\ StepKeep

StepNext ==
    \/ StepTick
    \/ StepReset

SpecStep == StepInit /\ [][StepNext]_vars

(* The engine in the middle of the last tick, before the terminal handling *)
MidTick == UpToIntegration(last.before)

(* C12: terminal handling of a tick, on z and the already updated v after   *)
(* integration: z <= 0 and v = 1 ends landed (z = 0, v = 0); z <= 0 and     *)
(* v > 1 ends crashed (z = -1, v = 0); z <= 0 and v = 0 leaves z and v.     *)
C12_TerminalHandling ==
    (last.pc = "tick" /\ ~ZPositive(MidTick)) =>
        /\ MidTick.v = 1 => (sim.z = 0 /\ sim.zeps = 0 /\ sim.v = 0)
        /\ MidTick.v > 1 => (sim.z = Crashed /\ sim.v = 0)
        /\ MidTick.v = 0 => (sim.z = MidTick.z /\ sim.v = 0)

(* A descending tick from 1/60 m with the speed brought down to 1 km/h in   *)
(* that tick went below the ground and ended landed                         *)
C12_Witness ==
    /\ last.pc = "tick"
    /\ last.before.z > 0 /\ last.before.v = 2 /\ last.before.delta_v < 0
    /\ MidTick.z < 0 /\ MidTick.v = 1
    /\ sim.z = 0 /\ sim.v = 0

NoPending(s) == s.delta_v = 0 /\ s.delta_d = 0 /\ s.delta_i = 0

ConsumedByAtMostOne(old, new) ==
    /\ Abs(new) <= Abs(old)
    /\ Abs(old) - Abs(new) <= 1
    /\ old * new >= 0

(* C14: in every tick each of delta_v, delta_d, delta_i is consumed by at   *)
(* most one unit and only toward zero, without a sign flip.                 *)
C14_OneUnitPerTick ==
    last.pc = "tick" =>
        /\ ConsumedByAtMostOne(last.before.delta_v, sim.delta_v)
        /\ ConsumedByAtMostOne(last.before.delta_d, sim.delta_d)
        /\ ConsumedByAtMostOne(last.before.delta_i, sim.delta_i)

(* The pending delta_i points beyond the inclination stop *)
BeyondInclinationStop(s) ==
    \/ s.delta_i > 0 /\ s.i >= 90
    \/ s.delta_i < 0 /\ s.i <= -90

(* C14 as amended: in every tick delta_v and delta_d are consumed by at     *)
(* most one unit toward zero; so is delta_i, except that a tick of a        *)
(* non-crashed engine clears a delta_i that points beyond the inclination   *)
(* stop (delta_i > 0 at i = 90, delta_i < 0 at i = -90) to 0 at once.       *)
C14_OneUnitPerTickOrCleared ==
    last.pc = "tick" =>
        /\ ConsumedByAtMostOne(last.before.delta_v, sim.delta_v)
        /\ ConsumedByAtMostOne(last.before.delta_d, sim.delta_d)
        /\ IF BeyondInclinationStop(last.before) /\ last.before.z >= 0
           THEN sim.delta_i = 0
           ELSE ConsumedByAtMostOne(last.before.delta_i, sim.delta_i)

(* A tick drained one unit of delta_v and of delta_d and cleared a          *)
(* delta_i of 2 at the upper stop                                           *)
C14_Witness ==
    /\ last.pc = "tick"
    /\ last.before.i = 90 /\ last.before.delta_i = 2 /\ sim.delta_i = 0
    /\ last.before.delta_v = -2 /\ sim.delta_v = -1
    /\ last.before.delta_d = 2 /\ sim.delta_d = 1

(* x, y, z, v, dist, ftime and the three pending deltas are zero *)
ZeroedExceptAngles(s) ==
    /\ s.x = 0 /\ s.y = 0 /\ s.z = 0 /\ s.zeps = 0
    /\ s.v = 0 /\ s.dist = 0 /\ s.ftime = 0
    /\ NoPending(s)

(* C15: after reset() every state field (x, y, z, v, d, i, dist, ftime)     *)
(* and all three pending deltas are zero, whatever the state before.        *)
C15_ResetZeroesAll ==
    last.pc = "reset" =>
        /\ ZeroedExceptAngles(sim)
        /\ sim.d = 0
        /\ sim.i = 0

(* C15 as amended: after reset() x, y, z, v, dist, ftime and all three      *)
(* pending deltas are zero and heading and inclination are both 90,         *)
(* whatever the state before.                                               *)
C15_ResetZeroesAllButAngles ==
    last.pc = "reset" =>
        /\ ZeroedExceptAngles(sim)
        /\ sim.d = 90
        /\ sim.i = 90

(* reset() of a crashed engine with other angles and pending deltas *)
C15_Witness ==
    /\ last.pc = "reset"
    /\ last.before.z = Crashed /\ last.before.dist > 0
    /\ last.before.d = 359 /\ last.before.i = -90
    /\ last.before.delta_v > 0 /\ last.before.delta_d < 0
    /\ last.before.delta_i > 0
    /\ sim.z = 0 /\ sim.dist = 0 /\ sim.d = 90 /\ sim.i = 90 /\ NoPending(sim)

Landed(s) == s.z = 0 /\ s.zeps = 0 /\ s.v = 0

IsCrashed(s) == s.z = Crashed /\ s.v = 0

SameFlightState(s, u) ==
    /\ s.x = u.x /\ s.y = u.y /\ s.z = u.z /\ s.zeps = u.zeps
    /\ s.v = u.v /\ s.d = u.d /\ s.i = u.i
    /\ s.dist = u.dist /\ s.ftime = u.ftime

(* C16: once the engine is grounded with v = 0 (landed at z = 0 or crashed  *)
(* at z = -1), a tick leaves x, y, z, v, d, i, dist and ftime unchanged,    *)
(* whatever the pending deltas.                                             *)
C16_GroundedTickIsNoOp ==
    (last.pc = "tick" /\ (Landed(last.before) \/ IsCrashed(last.before))) =>
        SameFlightState(sim, last.before)

(* C16 as amended: a tick of a crashed engine (z = -1) changes nothing,     *)
(* whatever the pending deltas; a tick of an engine landed at z = 0 with    *)
(* v = 0 changes nothing when the three pending deltas are 0.  Repeating    *)
(* such a tick changes nothing either.                                      *)
C16_CrashedOrIdleTickIsNoOp ==
    (last.pc = "tick"
       /\ \/ IsCrashed(last.before)
          \/ Landed(last.before) /\ NoPending(last.before)) =>
        sim = last.before

(* A crashed engine with pending deltas after its second tick *)
C16_Witness ==
    /\ last.pc = "tick" /\ ops = 2
    /\ IsCrashed(last.before)
    /\ last.before.delta_v > 0 /\ last.before.delta_d # 0
    /\ last.before.delta_i # 0
    /\ sim = last.before

Unit(delta) == IF delta > 0 THEN 1 ELSE IF delta < 0 THEN -1 ELSE 0

(* The last tick ended a run of exactly as many ticks as the run's first     *)
(* state had units pending, none of them a tick of a crashed engine          *)
DrainedRun(pending) ==
    /\ last.pc = "tick"
    /\ pending # 0
    /\ last.n = Abs(pending)
    /\ last.before.z >= 0

(* C24: the velocity step of a non-crashed tick: with delta_v # 0 one unit  *)
(* in the sign of delta_v is removed from delta_v and v becomes             *)
(* min(VMAX, max(0, v + unit)); with delta_v = 0, v is unchanged.  The      *)
(* delta drains also while v is saturated at 0 or VMAX: after |delta_v|     *)
(* such ticks without new requests the pending delta_v is 0.  v is the      *)
(* velocity the step leaves (lines 117-143), which the tick keeps unless    *)
(* its terminal handling stops the engine at z <= 0.                        *)
C24_VelocityStep ==
    /\ (last.pc = "tick" /\ last.before.z >= 0) =>
           LET unit == Unit(last.before.delta_v)
           IN  /\ sim.delta_v = last.before.delta_v - unit
               /\ MidTick.v = Min(VMAX, Max(0, last.before.v + unit))
               /\ sim.v = (IF ~ZPositive(MidTick) /\ MidTick.v >= 1 THEN 0 ELSE MidTick.v)
    /\ DrainedRun(last.start.delta_v) => sim.delta_v = 0

(* Two ticks at VMAX with two units pending: v stayed at VMAX and the       *)
(* pending delta is drained                                                 *)
C24_Witness ==
    /\ DrainedRun(last.start.delta_v)
    /\ last.start.v = VMAX /\ last.start.delta_v = 2
    /\ sim.v = VMAX /\ sim.delta_v = 0

(* C27: the crashed state is absorbing under ticks: once z = -1 a tick      *)
(* changes neither x, y, z, v, d, i, dist, ftime nor a pending delta (so    *)
(* deltas pending in the crashed state are never drained), and only         *)
(* reset() leaves the crashed state.                                        *)
C27_CrashedAbsorbing ==
    /\ []((last.pc = "tick" /\ last.before.z = Crashed) =>
             /\ SameFlightState(sim, last.before)
             /\ sim.delta_v = last.before.delta_v
             /\ sim.delta_d = last.before.delta_d
             /\ sim.delta_i = last.before.delta_i)
    /\ [][(sim.z = Crashed /\ sim'.z # Crashed) =>
             (last'.pc = "reset" /\ sim' = ResetState)]_vars

(* Two ticks of a crashed engine have left its three pending deltas as      *)
(* they were                                                                *)
C27_Witness ==
    /\ last.pc = "tick" /\ last.n = 2
    /\ last.start.z = Crashed
    /\ last.start.delta_v = 2 /\ last.start.delta_d = -2 /\ last.start.delta_i = 1
    /\ sim = last.start

(* C29: the heading step: with delta_d # 0 a tick moves d by one degree in  *)
(* the sign of delta_d modulo 360 (359 -> 0 upward, 0 -> 359 downward) and  *)
(* removes one unit from delta_d; after |delta_d| non-crashed ticks without *)
(* new requests d = (d_initial + delta_d) mod 360 and delta_d = 0.          *)
C29_HeadingStep ==
    /\ (last.pc = "tick" /\ last.before.z >= 0 /\ last.before.delta_d # 0) =>
           LET unit == Unit(last.before.delta_d)
           IN  /\ sim.d = (last.before.d + unit) % 360
               /\ sim.delta_d = last.before.delta_d - unit
    /\ DrainedRun(last.start.delta_d) =>
           /\ sim.d = (last.start.d + last.start.delta_d) % 360
           /\ sim.delta_d = 0

(* Two ticks have turned the heading from 359 over 0 to 1 *)
C29_Witness ==
    /\ DrainedRun(last.start.delta_d)
    /\ last.start.d = 359 /\ last.start.delta_d = 2
    /\ last.before.d = 0
    /\ sim.d = 1 /\ sim.delta_d = 0

----------------------------------------------------------------------------
(* Specification SpecSum: request_delta_v calls, each taken as a whole,     *)
(* interleaved with ticks, with the sum of the deltas requested since the   *)
(* last reset() remembered, and whether a tick since then has limited v at  *)
(* 0 or VMAX or stopped the engine at z <= 0.  set_i turns the engine       *)
(* downward so that it can land and crash.                                  *)

SumMaxOps == 8

SumDeltas == {-2, -1, 1, 3}

SumInclinations == {-90, 90}

(* The tick of engine s limits v: v + unit leaves 0..VMAX *)
Clamps(s) ==
    /\ s.z >= 0
    /\ (s.v + Unit(s.delta_v) < 0 \/ s.v + Unit(s.delta_v) > VMAX)

(* The tick of engine s ends in the landed or the crashed branch *)
StopsAtGround(s) ==
    LET m == UpToIntegration(s)
    IN  ~ZPositive(m) /\ m.v >= 1

(* After reset(), and after reset(), request_delta_v(14) and 14 ticks *)
SumInit ==
    /\ \/ sim = ResetState /\ last = [pc |-> "sum", requested |-> 0, clean |-> TRUE]
       \/ sim = FastClimb /\ last = [pc |-> "sum", requested |-> VMAX - 1, clean |-> TRUE]
    /\ ops = 0
    /\ race = NoRace
    /\ plan = NoPlan
    /\ prof = NoProf
    /\ ap = NoAp

SumKeep == UNCHANGED <<race, plan, prof, ap>>

SumRequest ==
    /\ ops < SumMaxOps
    /\ \E delta \in SumDeltas :
          /\ sim' = request_delta_v(sim, delta)
          /\ last' = [last EXCEPT !.requested = @ + delta]
    /\ ops' = ops + 1
    /\ SumKeep

SumTick ==
    /\ ops < SumMaxOps
    /\ sim' = UpdateSim(sim)
    /\ last' = [last EXCEPT !.clean = @ /\ ~Clamps(sim) /\ ~StopsAtGround(sim)]
    /\ ops' = ops + 1
    /\ SumKeep

SumSetI ==
    /\ ops < SumMaxOps
    /\ \E n \in SumInclinations : sim' = set_i(sim, n)
    /\ ops' = ops + 1
    /\ UNCHANGED last
    /\ SumKeep

SumReset ==
    /\ ops < SumMaxOps
    /\ sim # ResetState
    /\ sim' = ResetState
    /\ last' = [pc |-> "sum", requested |-> 0, clean |-> TRUE]
    /\ ops' = ops + 1
    /\ SumKeep

SumNext ==
    \/ SumRequest
    \/ SumTick
    \/ SumSetI
    \/ SumReset

SpecSum == SumInit /\ [][SumNext]_vars

(* C25: as long as no tick since reset() has limited v at 0 or VMAX or      *)
(* stopped the engine on landing or crashing, after any interleaving of     *)
(* atomic request_delta_v calls and ticks v + pending delta_v equals the    *)
(* sum of all deltas requested since reset().                               *)
C25_VelocityPlusPendingIsSum ==
    (last.pc = "sum" /\ last.clean) => sim.v + sim.delta_v = last.requested

(* Requests and ticks have alternated: the engine flies at v >= 2 with a    *)
(* negative delta partly drained                                            *)
C25_Witness ==
    /\ last.pc = "sum" /\ last.clean
    /\ ops >= 5
    /\ sim.v >= 2 /\ sim.delta_v = -1 /\ sim.z > 0
    /\ last.requested = sim.v - 1
    /\ last.requested < VMAX - 1

----------------------------------------------------------------------------
(* Specification SpecSet: one set_d or set_i, with values inside and        *)
(* outside the range, on the engine states of SpecStep.                     *)

SetCallD ==
    /\ last.pc = "off"
    /\ \E n \in SetDInputs :
          /\ sim' = set_d(sim, n)
          /\ last' = [pc |-> "set_d", before |-> sim, arg |-> n]
    /\ UNCHANGED ops
    /\ StepKeep

SetCallI ==
    /\ last.pc = "off"
    /\ \E n \in SetIInputs :
          /\ sim' = set_i(sim, n)
          /\ last' = [pc |-> "set_i", before |-> sim, arg |-> n]
    /\ UNCHANGED ops
    /\ StepKeep

SetNext ==
    \/ SetCallD
    \/ SetCallI

SpecSet == StepInit /\ [][SetNext]_vars

(* C32: set_d(n) with n outside 0..359 and set_i(n) with n outside -90..90  *)
(* leave the entire engine state unchanged (they return without raising);   *)
(* an in-range value overwrites d (resp. i) at once and leaves every other  *)
(* field, the pending deltas included, unchanged.                           *)
C32_SettersRangeChecked ==
    /\ last.pc = "set_d" =>
           sim = (IF 0 <= last.arg /\ last.arg <= 359
                  THEN [last.before EXCEPT !.d = last.arg] ELSE last.before)
    /\ last.pc = "set_i" =>
           sim = (IF -90 <= last.arg /\ last.arg <= 90
                  THEN [last.before EXCEPT !.i = last.arg] ELSE last.before)

(* set_d(360) on a flying engine with pending deltas has changed nothing *)
C32_Witness ==
    /\ last.pc = "set_d" /\ last.arg = 360
    /\ last.before.z > 0 /\ last.before.v > 0 /\ last.before.d = 359
    /\ last.before.delta_v # 0 /\ last.before.delta_d # 0
    /\ sim = last.before

----------------------------------------------------------------------------
(* Specification SpecTerm: the simulator thread of a started engine         *)
(* (__run_sim: the test of __running, __update_sim, time.sleep) and one     *)
(* terminate() of another thread at any moment.  race holds the thread's    *)
(* position, the flag __running and what is remembered of the call.  The    *)
(* thread keeps running (the sleep returns), hence weak fairness.           *)

TermMaxTicks == 8

(* start() has set __running and started the thread; the engine has a       *)
(* delta pending or is climbing, so that every tick changes its state       *)
TermInit ==
    /\ sim \in { request_delta_v(ResetState, k) : k \in 1..3 } \cup {FastClimb}
    /\ race = [pc |-> "test", running |-> TRUE, terminated |-> FALSE,
               begun |-> 0, at_exit |-> ResetState]
    /\ ops = 0
    /\ last = NoLast
    /\ plan = NoPlan
    /\ prof = NoProf
    /\ ap = NoAp

TermKeep == UNCHANGED <<plan, prof, ap, last>>

(* A slip: the loop does not look at the flag *)
TermTest_IgnoresFlag ==
    /\ race.pc = "test"
    /\ ops < TermMaxTicks
    /\ race' = [race EXCEPT !.pc = "update"]
    /\ UNCHANGED <<sim, ops>>
    /\ TermKeep

(* while self.__running (line 220) *)
TermTest ==
    /\ race.pc = "test"
    /\ race.running => ops < TermMaxTicks
    /\ race' = [race EXCEPT !.pc = IF race.running THEN "update" ELSE "exited",
                            !.at_exit = IF race.running THEN @ ELSE sim]
    /\ UNCHANGED <<sim, ops>>
    /\ TermKeep

(* self.__update_sim() (line 221); begun counts the ticks begun after       *)
(* terminate()                                                              *)
TermUpdate ==
    /\ race.pc = "update"
    /\ sim' = UpdateSim(sim)
    /\ ops' = ops + 1
    /\ race' = [race EXCEPT !.pc = "sleep",
                            !.begun = IF race.terminated THEN @ + 1 ELSE @]
    /\ TermKeep

(* time.sleep(...) (line 222) *)
TermSleep ==
    /\ race.pc = "sleep"
    /\ race' = [race EXCEPT !.pc = "test"]
    /\ UNCHANGED <<sim, ops>>
    /\ TermKeep

(* terminate() (lines 215-216) *)
Terminate ==
    /\ race.pc # "off" /\ ~race.terminated
    /\ race' = [race EXCEPT !.running = FALSE, !.terminated = TRUE]
    /\ UNCHANGED <<sim, ops>>
    /\ TermKeep

TermThread == TermTest \/ TermUpdate \/ TermSleep

TermNext ==
    \/ TermTest
    \/ TermUpdate
    \/ TermSleep
    \/ Terminate

SpecTerm == TermInit /\ [][TermNext]_vars /\ WF_vars(TermThread)

(* C33: after terminate() is called on a started engine the tick loop       *)
(* stops: at most one tick begins after the call, the loop is left, and     *)
(* from then on no tick changes the state again.                            *)
C33_TerminateStopsLoop ==
    /\ [](race.terminated => race.begun <= 1)
    /\ [](race.pc = "exited" => (race.terminated /\ sim = race.at_exit))
    /\ (race.terminated ~> race.pc = "exited")

(* terminate() came between the test of the flag and the tick: that tick    *)
(* still ran and changed the engine, then the loop was left                 *)
C33_Witness ==
    /\ race.pc = "exited" /\ race.terminated
    /\ race.begun = 1
    /\ ops >= 3
    /\ sim = race.at_exit /\ sim.z > 0

----------------------------------------------------------------------------
(* ZProfil: the kinematic plan of the vertical profile.  Lengths are in     *)
(* units of 1/PosScale metre.  brems_strecke is the quotient rounded down   *)
(* to the unit; min and max with whole lengths commute with that rounding.  *)

Cm == PosScale \div 100

(* Lexicographic order on <<length, dust>>: dust is the sign of the         *)
(* rounding error that a float result carries against the exact length      *)
LexLeq(a, b) == a[1] < b[1] \/ (a[1] = b[1] /\ a[2] <= b[2])

LexMin(a, b) == IF LexLeq(a, b) THEN a ELSE b

LexMax(a, b) == IF LexLeq(a, b) THEN b ELSE a

(* Pairs <<z, stop_schwelle>> for which the binary64 result of              *)
(* z - (z - stop_schwelle) lies one rounding step below stop_schwelle       *)
ZDustBelow ==
    { <<30 * Cm, 5 * Cm>>, <<70 * Cm, 10 * Cm>>, <<70 * Cm, 22 * Cm>>,
      <<100 * Cm, 10 * Cm>>, <<100 * Cm, 22 * Cm>>, <<300 * Cm, 5 * Cm>>,
      <<1000 * Cm, 10 * Cm>> }

(* ... and one rounding step above it; every other pair of the inputs       *)
(* below is exact                                                           *)
ZDustAbove ==
    { <<70 * Cm, 5 * Cm>>, <<100 * Cm, 5 * Cm>>, <<300 * Cm, 10 * Cm>>,
      <<300 * Cm, 22 * Cm>>, <<1000 * Cm, 5 * Cm>>, <<1000 * Cm, 22 * Cm>> }

(* Sign of fl(z - fl(z - stop_schwelle)) - stop_schwelle *)
SubSubDust(z, stop_schwelle) ==
    IF <<z, stop_schwelle>> \in ZDustBelow THEN -1
    ELSE IF <<z, stop_schwelle>> \in ZDustAbove THEN 1 ELSE 0

NoZPlan == [none |-> TRUE]

(* _baue_plan without the slow_z_fallback floor of the window *)
_baue_plan_NoFallbackWindow(z, cfg, start_z) ==
    LET stop_schwelle == Max(cfg.stop_z, start_z)
        gesamt_strecke == Max(z - stop_schwelle, 0)
        dv_beschleunigen == Abs(cfg.v_up)
        dv_abbremsen == Abs(cfg.v_up_to_slow)
    IN  IF gesamt_strecke > 0 /\ dv_beschleunigen > 0 /\ dv_abbremsen > 0
        THEN LET brems_strecke ==
                     (gesamt_strecke * dv_beschleunigen)
                         \div (dv_beschleunigen + dv_abbremsen)
                 langsam_fenster == Min(gesamt_strecke, brems_strecke)
             IN  [none |-> FALSE,
                  gesamt_strecke |-> gesamt_strecke,
                  dv_beschleunigen |-> dv_beschleunigen,
                  dv_abbremsen |-> dv_abbremsen,
                  brems_strecke |-> brems_strecke,
                  langsam_fenster |-> langsam_fenster,
                  brems_beginn |-> z - langsam_fenster,
                  brems_beginn_dust |->
                      IF langsam_fenster = gesamt_strecke
                      THEN SubSubDust(z, stop_schwelle) ELSE 0,
                  stop_schwelle |-> stop_schwelle]
        ELSE NoZPlan

(* ZProfil._baue_plan(z, cfg, start_z).  brems_beginn = z - langsam_fenster *)
(* is a float subtraction: where the window is the whole climb it is        *)
(* z - (z - stop_schwelle), whose rounding brems_beginn_dust records.       *)
_baue_plan(z, cfg, start_z) ==
    LET stop_schwelle == Max(cfg.stop_z, start_z)
        gesamt_strecke == Max(z - stop_schwelle, 0)
        dv_beschleunigen == Abs(cfg.v_up)
        dv_abbremsen == Abs(cfg.v_up_to_slow)
    IN  IF gesamt_strecke > 0 /\ dv_beschleunigen > 0 /\ dv_abbremsen > 0
        THEN LET brems_strecke ==
                     (gesamt_strecke * dv_beschleunigen)
                         \div (dv_beschleunigen + dv_abbremsen)
                 langsam_fenster ==
                     Min(gesamt_strecke,
                         Max(brems_strecke, cfg.slow_z_fallback))
             IN  [none |-> FALSE,
                  gesamt_strecke |-> gesamt_strecke,
                  dv_beschleunigen |-> dv_beschleunigen,
                  dv_abbremsen |-> dv_abbremsen,
                  brems_strecke |-> brems_strecke,
                  langsam_fenster |-> langsam_fenster,
                  brems_beginn |-> z - langsam_fenster,
                  brems_beginn_dust |->
                      IF langsam_fenster = gesamt_strecke
                      THEN SubSubDust(z, stop_schwelle) ELSE 0,
                  stop_schwelle |-> stop_schwelle]
        ELSE NoZPlan

(* ZProfil.ende_beschleunigung_kinematik(z, cfg, start_z): raised, or the   *)
(* returned height as <<length, dust>>                                      *)
ende_beschleunigung_kinematik(z, cfg, start_z) ==
    IF z < start_z
    THEN [raised |-> TRUE, value |-> <<0, 0>>]
    ELSE LET p == _baue_plan(z, cfg, start_z)
         IN  IF p.none
             THEN [raised |-> FALSE, value |-> <<start_z, 0>>]
             ELSE LET s_acc == Max(p.gesamt_strecke - p.brems_strecke, 0)
                      s_pre == Max(p.gesamt_strecke - p.langsam_fenster, 0)
                      kandidat == start_z + Min(s_acc, s_pre)
                  IN  [raised |-> FALSE,
                       value |->
                           LexMax(<<start_z, 0>>,
                                  LexMin(<<kandidat, 0>>,
                                         <<p.brems_beginn,
                                           p.brems_beginn_dust>>))]

----------------------------------------------------------------------------
(* Specification SpecZ: the vertical plan on bounded inputs                 *)

ZTargets == { 4 * Cm, 30 * Cm, 70 * Cm, 100 * Cm, 300 * Cm, 1000 * Cm }

ZStarts == { 0, 10 * Cm, 22 * Cm, 50 * Cm, 400 * Cm }

ZStopZ == { PosScale \div 20, PosScale \div 2 }

ZSlowZFallback == { 0, 2 * PosScale }

ZSpeeds == { <<10, -9>>, <<1, -15>>, <<0, -9>>, <<10, 0>> }

ZInit ==
    /\ \E z \in ZTargets, start_z \in ZStarts, stop_z \in ZStopZ,
          slow_z_fallback \in ZSlowZFallback, vv \in ZSpeeds :
          plan = [pc |-> "zcall", z |-> z, start_z |-> start_z,
                  conf |-> [DEFAULT_CFG EXCEPT !.stop_z = stop_z,
                                               !.slow_z_fallback = slow_z_fallback,
                                               !.v_up = vv[1],
                                               !.v_up_to_slow = vv[2]],
                  p |-> NoZPlan,
                  r |-> [raised |-> FALSE, value |-> <<0, 0>>]]
    /\ sim = ResetState
    /\ ops = 0
    /\ last = NoLast
    /\ race = NoRace
    /\ prof = NoProf
    /\ ap = NoAp

CallZProfil ==
    /\ plan.pc = "zcall"
    /\ plan' = [plan EXCEPT
                   !.pc = "zreturned",
                   !.p = _baue_plan(plan.z, plan.conf, plan.start_z),
                   !.r = ende_beschleunigung_kinematik(plan.z, plan.conf,
                                                       plan.start_z)]
    /\ UNCHANGED <<sim, ops, race, prof, ap, last>>

ZNext == CallZProfil

SpecZ == ZInit /\ [][ZNext]_vars

ZPlanned == plan.pc = "zreturned" /\ ~plan.p.none

(* C34 as stated: whenever _baue_plan returns a plan, its langsam_fenster   *)
(* is at least cfg.slow_z_fallback.                                         *)
C34_WindowAtLeastFallback ==
    ZPlanned => plan.p.langsam_fenster >= plan.conf.slow_z_fallback

(* C34 amended: whenever _baue_plan returns a plan, its langsam_fenster is  *)
(* at least min(gesamt_strecke, cfg.slow_z_fallback) and never more than    *)
(* gesamt_strecke; it is at least cfg.slow_z_fallback exactly when the      *)
(* whole climb is.                                                          *)
C34_WindowAtLeastFallbackCapped ==
    ZPlanned =>
        /\ plan.p.langsam_fenster
               >= Min(plan.p.gesamt_strecke, plan.conf.slow_z_fallback)
        /\ plan.p.langsam_fenster <= plan.p.gesamt_strecke
        /\ (plan.p.langsam_fenster >= plan.conf.slow_z_fallback
               <=> plan.p.gesamt_strecke >= plan.conf.slow_z_fallback)

(* A climb of 0.95 m under the default 2 m fallback: the window is the      *)
(* whole climb, above the kinematic braking distance and below the fallback *)
C34_Witness ==
    /\ ZPlanned
    /\ plan.conf.slow_z_fallback = 2 * PosScale
    /\ plan.p.gesamt_strecke = 95 * Cm
    /\ plan.p.langsam_fenster = 95 * Cm
    /\ plan.p.brems_strecke < plan.p.langsam_fenster

(* C35: ende_beschleunigung_kinematik(z, cfg, start_z) raises ValueError    *)
(* when z < start_z and otherwise returns r with start_z <= r <= z and,     *)
(* where a plan exists, r <= brems_beginn.                                  *)
C35_AccelerationEndClamped ==
    plan.pc = "zreturned" =>
        IF plan.z < plan.start_z
        THEN plan.r.raised
        ELSE /\ ~plan.r.raised
             /\ LexLeq(<<plan.start_z, 0>>, plan.r.value)
             /\ LexLeq(plan.r.value, <<plan.z, 0>>)
             /\ ~plan.p.none =>
                    LexLeq(plan.r.value,
                           <<plan.p.brems_beginn, plan.p.brems_beginn_dust>>)

----------------------------------------------------------------------------
(* Specification SpecNav: NavOps.profiled_approach, the two-threshold       *)
(* profile without stagnation guard.  remainder() is a callable of the      *)
(* caller: its value is prof.rem, which the environment may change between  *)
(* any two steps of the profile.                                            *)

NavRests == { 0, PosScale \div 20, PosScale, 4 * PosScale, 10 * PosScale }

(* <<slow_at, stop_at>>; the last two can never be reached by a remainder   *)
(* that stays non-negative                                                   *)
NavThresholds ==
    { <<4 * PosScale, PosScale \div 20>>, <<PosScale, PosScale>>,
      <<PosScale \div 20, 0>>, <<PosScale, -PosScale>>,
      <<-PosScale, -PosScale>> }

(* <<accel_dv, slow_dv>> *)
NavSpeeds == { <<DEFAULT_CFG.v_up, DEFAULT_CFG.v_up_to_slow>>,
               <<DEFAULT_CFG.v_cruise, DEFAULT_CFG.v_cruise_to_slow>> }

(* A wait that gives up at its first poll *)
WaitUntilLeaves_GivesUp(pred) == TRUE

(* NavOps.wait_until: the loop 'while not pred(): sleep' is left at a poll  *)
(* exactly when pred() is true                                               *)
WaitUntilLeaves(pred) == pred

NavInit ==
    /\ \E th \in NavThresholds, vv \in NavSpeeds, rem \in NavRests :
          prof = [pc |-> "accel", slow_at |-> th[1], stop_at |-> th[2],
                  accel_dv |-> vv[1], slow_dv |-> vv[2], cfg |-> DEFAULT_CFG,
                  rem |-> rem, issued |-> << >>, passed |-> << >>,
                  slept |-> FALSE]
    /\ sim = ResetState
    /\ ops = 0
    /\ last = NoLast
    /\ race = NoRace
    /\ plan = NoPlan
    /\ ap = NoAp

NavKeep == UNCHANGED <<ops, race, plan, ap, last>>

(* sim.request_delta_v(dv) of the profile, then on to pc *)
NavIssue(dv, pc) ==
    /\ sim' = request_delta_v(sim, dv)
    /\ prof' = [prof EXCEPT !.pc = pc, !.issued = Append(@, dv)]
    /\ NavKeep

(* One poll of wait_until(lambda: remainder() <= threshold) *)
NavPoll(threshold, done, sleep) ==
    /\ prof' = IF WaitUntilLeaves(prof.rem <= threshold)
               THEN [prof EXCEPT !.pc = done, !.passed = Append(@, prof.rem)]
               ELSE [prof EXCEPT !.pc = sleep, !.slept = TRUE]
    /\ UNCHANGED sim
    /\ NavKeep

NavAccel == prof.pc = "accel" /\ NavIssue(prof.accel_dv, "poll_slow")

NavPollSlow ==
    prof.pc = "poll_slow" /\ NavPoll(prof.slow_at, "slow", "sleep_slow")

NavSleepSlow ==
    /\ prof.pc = "sleep_slow"
    /\ prof' = [prof EXCEPT !.pc = "poll_slow"]
    /\ UNCHANGED sim
    /\ NavKeep

NavSlow == prof.pc = "slow" /\ NavIssue(prof.slow_dv, "poll_stop")

NavPollStop ==
    prof.pc = "poll_stop" /\ NavPoll(prof.stop_at, "stop", "sleep_stop")

NavSleepStop ==
    /\ prof.pc = "sleep_stop"
    /\ prof' = [prof EXCEPT !.pc = "poll_stop"]
    /\ UNCHANGED sim
    /\ NavKeep

NavStop == prof.pc = "stop" /\ NavIssue(prof.cfg.v_stop, "nav_returned")

(* The caller's remainder takes another value *)
NavRemainder ==
    /\ prof.pc \notin {"off", "nav_returned"}
    /\ \E rem \in NavRests \ {prof.rem} : prof' = [prof EXCEPT !.rem = rem]
    /\ UNCHANGED sim
    /\ NavKeep

NavNext ==
    \/ NavAccel
    \/ NavPollSlow
    \/ NavSleepSlow
    \/ NavSlow
    \/ NavPollStop
    \/ NavSleepStop
    \/ NavStop
    \/ NavRemainder

SpecNav == NavInit /\ [][NavNext]_vars

InWaitSlow == prof.pc \in {"poll_slow", "sleep_slow"}

InWaitStop == prof.pc \in {"poll_stop", "sleep_stop"}

(* C31: NavOps.profiled_approach issues slow_dv only after a poll observed  *)
(* remainder() <= slow_at and cfg.v_stop only after a poll observed         *)
(* remainder() <= stop_at; with no timeout and no stagnation guard it stays *)
(* in the current wait for ever when the remainder never reaches the        *)
(* wait's threshold.                                                        *)
C31_GuardlessProfile ==
    /\ [](/\ Len(prof.issued) >= 1 => prof.issued[1] = prof.accel_dv
          /\ Len(prof.issued) >= 2 =>
                 /\ prof.issued[2] = prof.slow_dv
                 /\ Len(prof.passed) >= 1
                 /\ prof.passed[1] <= prof.slow_at
          /\ Len(prof.issued) >= 3 =>
                 /\ prof.issued[3] = prof.cfg.v_stop
                 /\ Len(prof.passed) = 2
                 /\ prof.passed[2] <= prof.stop_at
          /\ Len(prof.issued) <= 3)
    /\ []((InWaitSlow /\ [](prof.rem > prof.slow_at)) => []InWaitSlow)
    /\ []((InWaitStop /\ [](prof.rem > prof.stop_at)) => []InWaitStop)

(* The profile returned after sleeping in a wait: all three commands are    *)
(* queued in the engine and both thresholds were observed                   *)
C31_Witness ==
    /\ prof.pc = "nav_returned" /\ prof.slept
    /\ prof.issued = <<prof.accel_dv, prof.slow_dv, prof.cfg.v_stop>>
    /\ prof.passed[1] <= prof.slow_at /\ prof.passed[2] <= prof.stop_at
    /\ prof.passed[1] > prof.passed[2]
    /\ sim.delta_v = prof.accel_dv + prof.slow_dv + prof.cfg.v_stop

----------------------------------------------------------------------------
(* Specification SpecDir: the two direction normalisers on angles of        *)
(* -DirMaxTenths/10 .. DirMaxTenths/10 degrees in steps of a tenth          *)

DirMaxTenths == 7300

DirStep == MilliDeg \div 10

DirInit ==
    /\ \E k \in -DirMaxTenths .. DirMaxTenths :
          last = [pc |-> "dir_call", g |-> k * DirStep, h |-> 0, n |-> 0]
    /\ sim = ResetState
    /\ ops = 0
    /\ race = NoRace
    /\ plan = NoPlan
    /\ prof = NoProf
    /\ ap = NoAp

CallDir ==
    /\ last.pc = "dir_call"
    /\ last' = [last EXCEPT !.pc = "dir_returned",
                            !.h = richtung_als_int(last.g),
                            !.n = dir_to_int(last.g)]
    /\ UNCHANGED <<sim, ops, race, plan, prof, ap>>

DirNext == CallDir

SpecDir == DirInit /\ [][DirNext]_vars

(* r is g rounded half-to-even and reduced mod 360: some integer m of the   *)
(* residue class of r lies at most half a degree from g, and is even where  *)
(* g lies exactly between two integers                                      *)
IsRoundedDirection(g, r) ==
    /\ r \in 0 .. 359
    /\ \E turn \in -(DirMaxTenths \div 3600 + 2) .. (DirMaxTenths \div 3600 + 2) :
          LET m == r + 360 * turn
          IN  /\ Abs(m * MilliDeg - g) * 2 <= MilliDeg
              /\ Abs(m * MilliDeg - g) * 2 = MilliDeg => m % 2 = 0

(* C36: richtung_als_int(g) and NavOps.dir_to_int(g) return g rounded       *)
(* half-to-even, mod 360: an integer in 0..359 for every g, negative angles *)
(* and angles of 360 and more included (359.6 -> 0, -0.4 -> 0,              *)
(* 180.5 -> 180).                                                           *)
C36_DirectionRounded ==
    last.pc = "dir_returned" =>
        /\ IsRoundedDirection(last.g, last.h)
        /\ last.n = last.h
        /\ last.g = 359600 => last.h = 0
        /\ last.g = -400 => last.h = 0
        /\ last.g = 180500 => last.h = 180

(* -361.5 degrees lie between -362 and -361: the even one, -362, is 358     *)
C36_Witness ==
    /\ last.pc = "dir_returned"
    /\ last.g = -361500
    /\ last.h = 358 /\ last.n = 358

----------------------------------------------------------------------------
(* MathFunctions (math_utils.py); Python's integers are unbounded and the   *)
(* products of the inputs below stay far inside TLC's range                  *)

RECURSIVE _prod_dc(_, _)
(* MathFunctions._prod_dc: divide and conquer on [a, b], a <= b *)
_prod_dc(a, b) ==
    IF a = b THEN a
    ELSE LET mid == (a + b) \div 2
             left == _prod_dc(a, mid)
             right == _prod_dc(mid + 1, b)
         IN  left * right

(* MathFunctions._prod_interval *)
_prod_interval(a, b) == IF a > b THEN 1 ELSE _prod_dc(a, b)

(* fac that takes the magnitude of a negative interval for its product *)
fac_NoSign(m, n) ==
    IF m < n THEN 1
    ELSE IF n <= 0 /\ 0 <= m THEN 0
    ELSE IF m < 0 THEN _prod_interval(-m, -n)
    ELSE _prod_interval(n, m)

(* MathFunctions.fac(m, n); width & 1 is the parity of the factor count *)
fac(m, n) ==
    IF m < n THEN 1
    ELSE IF n <= 0 /\ 0 <= m THEN 0
    ELSE IF m < 0
         THEN LET a == -m
                  b == -n
                  width == m - n + 1
                  sign == IF width % 2 = 1 THEN -1 ELSE 1
              IN  sign * _prod_interval(a, b)
    ELSE _prod_interval(n, m)

----------------------------------------------------------------------------
(* Specification SpecFac: fac on the intervals with ends in                 *)
(* -FacMax .. FacMax                                                        *)

FacMax == 8

FacInit ==
    /\ \E m \in -FacMax .. FacMax, n \in -FacMax .. FacMax :
          last = [pc |-> "fac_call", m |-> m, n |-> n, r |-> 0]
    /\ sim = ResetState
    /\ ops = 0
    /\ race = NoRace
    /\ plan = NoPlan
    /\ prof = NoProf
    /\ ap = NoAp

CallFac ==
    /\ last.pc = "fac_call"
    /\ last' = [last EXCEPT !.pc = "fac_returned", !.r = fac(last.m, last.n)]
    /\ UNCHANGED <<sim, ops, race, plan, prof, ap>>

FacNext == CallFac

SpecFac == FacInit /\ [][FacNext]_vars

RECURSIVE SeqProd(_, _)
(* The product of the integers lo, lo + 1, ..., hi, one factor at a time *)
SeqProd(lo, hi) == IF lo > hi THEN 1 ELSE SeqProd(lo, hi - 1) * hi

(* C38: fac(m, n) is the product of all integers k with n <= k <= m: 1 for  *)
(* the empty interval, 0 when the interval contains 0, the signed product   *)
(* for negative intervals (fac(-1, -3) = -6); the divide-and-conquer        *)
(* product agrees with the sequential one.                                  *)
C38_FacIsIntervalProduct ==
    last.pc = "fac_returned" =>
        /\ last.r = SeqProd(last.n, last.m)
        /\ last.m < last.n => last.r = 1
        /\ (last.n <= 0 /\ 0 <= last.m) => last.r = 0
        /\ (last.m = -1 /\ last.n = -3) => last.r = -6
        /\ \A a \in 1 .. FacMax, b \in 1 .. FacMax :
              _prod_interval(a, b) = SeqProd(a, b)

(* Three negative factors: the product is negative *)
C38_Witness ==
    /\ last.pc = "fac_returned"
    /\ last.m = -1 /\ last.n = -3
    /\ last.r = -6

----------------------------------------------------------------------------
(* InputUtils (input_utils.py).  A converted value is <<type, text>> with   *)
(* text its canonical form, so that values of different types compare       *)
(* unequal as they do in Python.                                            *)

(* The lines the user may type *)
RawInputs == { "7", " 7", "8", "x", "B", "b", "yes", "--flag", "--no-flag" }

Converted(v) == [ok |-> TRUE, value |-> v, exc |-> "none"]

Raises(exc) == [ok |-> FALSE, value |-> <<"none", "">>, exc |-> exc]

(* InputUtils._bool_converter: parse_args(['--flag', s]) of a parser whose  *)
(* only argument is the flag --flag/--no-flag.  s is a second argument: a   *)
(* spelling of the flag sets it, anything else is an unrecognized argument, *)
(* for which argparse prints its usage and raises SystemExit, which         *)
(* 'except Exception' does not catch.                                       *)
bool_converter(s) ==
    IF s = "--flag" THEN Converted(<<"bool", "True">>)
    ELSE IF s = "--no-flag" THEN Converted(<<"bool", "False">>)
    ELSE Raises("SystemExit")

(* DATA_TYPES[typ](raw): str, int and InputUtils.bool_converter *)
Convert(typ, raw) ==
    IF typ = "str" THEN Converted(<<"str", raw>>)
    ELSE IF typ = "int"
         THEN IF raw \in {"7", " 7"} THEN Converted(<<"int", "7">>)
              ELSE IF raw = "8" THEN Converted(<<"int", "8">>)
              ELSE Raises("ValueError")
    ELSE bool_converter(raw)

(* str.casefold on the texts above *)
casefold(s) == IF s = "B" THEN "b" ELSE s

IsStr(v) == v[1] = "str"

(* InputUtils.contains *)
contains(haystack, needle, case_insensitive) ==
    IF case_insensitive /\ IsStr(needle)
    THEN casefold(needle[2]) \in { casefold(h[2]) : h \in haystack }
    ELSE needle \in haystack

(* The whitelist test of read_input for a converted value *)
Approves(has_allowed, allowed, value, case_insensitive) ==
    LET approved == IF has_allowed THEN allowed ELSE {value}
        is_all_str == IsStr(value) /\ \A a \in approved : IsStr(a)
    IN  IF is_all_str THEN contains(approved, value, case_insensitive)
        ELSE value \in approved

----------------------------------------------------------------------------
(* Specification SpecInput: read_input with a user who types any of the     *)
(* lines at each prompt, for at most InMaxPrompts prompts                   *)

InMaxPrompts == 3

(* <<typ, allowed given, allowed>> *)
InCalls ==
    { <<"int", FALSE, {}>>, <<"int", TRUE, {}>>, <<"int", TRUE, {<<"int", "8">>}>>,
      <<"str", FALSE, {}>>, <<"str", TRUE, {}>>,
      <<"str", TRUE, {<<"str", "a">>, <<"str", "b">>}>>,
      <<"bool", FALSE, {}>>, <<"bool", TRUE, {}>>,
      <<"bool", TRUE, {<<"bool", "True">>}>> }

InInit ==
    /\ \E c \in InCalls, case_insensitive \in BOOLEAN :
          last = [pc |-> "in_call", typ |-> c[1], has_allowed |-> c[2],
                  allowed |-> c[3], case_insensitive |-> case_insensitive,
                  prompts |-> 0, raw |-> "", value |-> <<"none", "">>,
                  exc |-> "none"]
    /\ sim = ResetState
    /\ ops = 0
    /\ race = NoRace
    /\ plan = NoPlan
    /\ prof = NoProf
    /\ ap = NoAp

InKeep == UNCHANGED <<sim, ops, race, plan, prof, ap>>

(* The whitelist guard before the loop *)
InEnter ==
    /\ last.pc = "in_call"
    /\ last' = IF last.has_allowed /\ last.allowed = {}
               THEN [last EXCEPT !.pc = "in_raised", !.exc = "ValueError"]
               ELSE [last EXCEPT !.pc = "in_prompt"]
    /\ InKeep

(* One pass of the loop: prompt, convert, test *)
InPrompt ==
    /\ last.pc = "in_prompt"
    /\ last.prompts < InMaxPrompts
    /\ \E raw \in RawInputs :
          LET c == Convert(last.typ, raw)
              asked == [last EXCEPT !.prompts = @ + 1, !.raw = raw]
          IN  last' =
                  IF ~c.ok
                  THEN IF c.exc \in {"ValueError", "TypeError"}
                       THEN asked
                       ELSE [asked EXCEPT !.pc = "in_raised", !.exc = c.exc]
                  ELSE IF Approves(last.has_allowed, last.allowed, c.value,
                                   last.case_insensitive)
                       THEN [asked EXCEPT !.pc = "in_returned",
                                          !.value = c.value]
                       ELSE asked
    /\ InKeep

InNext == InEnter \/ InPrompt

SpecInput == InInit /\ [][InNext]_vars

(* C39: read_input returns only an input that converted to the requested    *)
(* type and, when a whitelist is given, matches one of its elements         *)
(* (case-insensitively for strings when case_insensitive); a rejected input *)
(* leads to the next prompt and never to an exception; an empty whitelist   *)
(* raises ValueError before the first prompt.                               *)
C39_ReadInputValidates ==
    /\ last.pc = "in_returned" =>
           /\ last.value[1] = last.typ
           /\ Convert(last.typ, last.raw) = Converted(last.value)
           /\ last.has_allowed =>
                  \E a \in last.allowed :
                      \/ a = last.value
                      \/ /\ last.case_insensitive
                         /\ IsStr(a) /\ IsStr(last.value)
                         /\ casefold(a[2]) = casefold(last.value[2])
    /\ last.pc = "in_raised" =>
           /\ last.has_allowed /\ last.allowed = {}
           /\ last.exc = "ValueError" /\ last.prompts = 0
    /\ (last.has_allowed /\ last.allowed = {}) =>
           last.pc \in {"in_call", "in_raised"}

----------------------------------------------------------------------------
(* Specification SpecAngle: angle on points whose differences have a        *)
(* first-quadrant angle the table of angel covers: 0, 36.87, 45, 53.13 and  *)
(* 90 degrees, and slopes of 1 : 36 000 000 that the series does not see    *)

AngleFar == 1000 * PosScale

(* <<|dx|, |dy|>> *)
AngleMagnitudes ==
    { <<0, 0>>, <<3 * PosScale, 0>>, <<0, 3 * PosScale>>,
      <<3 * PosScale, 4 * PosScale>>, <<4 * PosScale, 3 * PosScale>>,
      <<6 * PosScale, 8 * PosScale>>, <<8 * PosScale, 6 * PosScale>>,
      <<3 * PosScale, 3 * PosScale>>, <<1, 1>>,
      <<AngleFar, 1>>, <<1, AngleFar>> }

AngleStarts == { <<0, 0>>, <<2 * PosScale, -PosScale>>, <<-PosScale, 5 * PosScale>> }

AngleInit ==
    /\ \E p \in AngleStarts, m \in AngleMagnitudes, sx \in {-1, 1}, sy \in {-1, 1} :
          last = [pc |-> "angle_call", x1 |-> p[1], y1 |-> p[2],
                  x2 |-> p[1] + sx * m[1], y2 |-> p[2] + sy * m[2], r |-> 0]
    /\ sim = ResetState
    /\ ops = 0
    /\ race = NoRace
    /\ plan = NoPlan
    /\ prof = NoProf
    /\ ap = NoAp

CallAngle ==
    /\ last.pc = "angle_call"
    /\ last' = [last EXCEPT !.pc = "angle_returned",
                            !.r = angle(last.x1, last.y1, last.x2, last.y2)]
    /\ UNCHANGED <<sim, ops, race, plan, prof, ap>>

AngleNext == CallAngle

SpecAngle == AngleInit /\ [][AngleNext]_vars

AngleDx == last.x2 - last.x1

AngleDy == last.y2 - last.y1

(* The first-quadrant angle of (|dx|, |dy|) *)
AnglePhi == angel(0, 0, Abs(AngleDx), Abs(AngleDy))

(* C37 as stated: angle returns a value in [0, 360): phi for dx >= 0 and    *)
(* dy >= 0, 180 - phi for dx < 0 and dy >= 0, 180 + phi for dx < 0 and      *)
(* dy < 0, and 360 - phi for dx >= 0 and dy < 0.                            *)
C37_AngleByQuadrant ==
    last.pc = "angle_returned" =>
        /\ last.r >= 0 /\ last.r < 360 * MilliDeg
        /\ (AngleDx >= 0 /\ AngleDy >= 0) => last.r = AnglePhi
        /\ (AngleDx < 0 /\ AngleDy >= 0) => last.r = 180 * MilliDeg - AnglePhi
        /\ (AngleDx < 0 /\ AngleDy < 0) => last.r = 180 * MilliDeg + AnglePhi
        /\ (AngleDx >= 0 /\ AngleDy < 0) => last.r = 360 * MilliDeg - AnglePhi

(* C37 amended: angle returns a value in [0, 360): phi, 180 - phi and       *)
(* 180 + phi as stated, and for dx >= 0 and dy < 0 it returns               *)
(* (360 - phi) mod 360, which is 360 - phi for phi > 0 and 0 for phi = 0.   *)
C37_AngleByQuadrantMod ==
    last.pc = "angle_returned" =>
        /\ last.r >= 0 /\ last.r < 360 * MilliDeg
        /\ (AngleDx >= 0 /\ AngleDy >= 0) => last.r = AnglePhi
        /\ (AngleDx < 0 /\ AngleDy >= 0) => last.r = 180 * MilliDeg - AnglePhi
        /\ (AngleDx < 0 /\ AngleDy < 0) => last.r = 180 * MilliDeg + AnglePhi
        /\ (AngleDx >= 0 /\ AngleDy < 0) =>
               last.r = IF AnglePhi = 0 THEN 0 ELSE 360 * MilliDeg - AnglePhi

(* A target 1000 m ahead and a hair below the x axis: the series returns    *)
(* phi = 0 and the bearing is 0, not 360                                    *)
C37_Witness ==
    /\ last.pc = "angle_returned"
    /\ AngleDx = AngleFar /\ AngleDy = -1
    /\ AnglePhi = 0
    /\ last.r = 0

====
